---- MODULE Spec2Model ----
(***************************************************************************)
(* House Help backend (backend/app): the unlock ledger, the review gate,   *)
(* the masked worker views, the OTP ledger, the session tokens and the two *)
(* sign-in channels, as state machines over the rows of the relational     *)
(* store.                                                                  *)
(*                                                                         *)
(* Store: the default build (DATABASE_URL = sqlite:///./househelp.db).     *)
(* The tables declare no UNIQUE constraint on (user_id, worker_id), and    *)
(* the foreign keys are not enforced (backend/test_api.py unlocks as user  *)
(* 1 without any user row existing).  workers and users are sequences of   *)
(* rows, a row's id being its index (ids are handed out 1, 2, 3, ... and   *)
(* no worker or user is ever deleted).  unlocks, reviews and favorites are *)
(* bags of rows: their surrogate id is left out (and the created_at of     *)
(* reviews and favorites), as is the order of the lists built from them.   *)
(*                                                                         *)
(* Time is counted in minutes.  A float rating_avg is kept in tenths       *)
(* (4.5 is 45).                                                            *)
(***************************************************************************)
EXTENDS Integers, Sequences, FiniteSets, Bags, TLC

VARIABLES
    workers,    \* table workers:   Seq of [phone, rating_avg, rating_count]
    unlocks,    \* table unlocks:   bag of [user_id, worker_id, payment_id, amount]
    reviews,    \* table reviews:   bag of [user_id, worker_id, rating]
    favorites,  \* table favorites: bag of [user_id, worker_id]
    users,      \* table users:     Seq of [phone, firebase_uid, role, is_worker, worker_id]
    otp_codes,  \* table otp_codes: Seq of [phone, code, created_at, expires_at, verified, attempts]
    now,        \* datetime.utcnow(), in minutes
    reqs,       \* requests in flight (specifications with interleaving): id -> request
    resp,       \* the response of the last completed request
    issued      \* the tokens handed out so far (the server keeps none of them)

vars == <<workers, unlocks, reviews, favorites, users, otp_codes, now, reqs, resp, issued>>

-----------------------------------------------------------------------------
(* Bounds of the model *)

MaxUsers == 2
MaxWorkers == 1
MaxUnlocks == 2
MaxFavorites == 1
MaxRequests == 2
MaxOtpRows == 4
MaxTime == 11
MaxVerifyRows == 2
MaxIssueRows == 1

(* Program constants *)

UNLOCK_AMOUNT == 99
MIN_RATING == 1
MAX_RATING == 5
OTP_EXPIRY_MINUTES == 5
MAX_OTP_ATTEMPTS == 3
RATE_LIMIT_MINUTES == 10
RATE_LIMIT_COUNT == 3
ACCESS_TOKEN_EXPIRE_MINUTES == 15
REFRESH_TOKEN_EXPIRE_DAYS == 7
\* timedelta(days = 1) in minutes
MinutesPerDay == 24 * 60
\* the signing secret of the process
SECRET_KEY == "dev-secret-key"

LOCKED == "Locked - Pay 99 to Unlock"
UNKNOWN == "Unknown"
NONE == "none"

(* Input values *)

UserIds == 1..MaxUsers
WorkerIds == 1..MaxWorkers
PhonePool == <<"9876543210", "9876500001", "9876500002", "9876500003">>
WorkerPhones == {PhonePool[i] : i \in 1..MaxWorkers}
\* a phone string is the sequence of its characters
UserPhones == << <<"9","8","1","1","1","0","0","0","0","1">>, <<"9","8","1","1","1","0","0","0","0","2">>,
                 <<"9","8","1","1","1","0","0","0","0","3">>, <<"9","8","1","1","1","0","0","0","0","4">> >>
\* phones a caller may type: two spellings of 9876543210, a second mobile, and a
\* string that is no Indian mobile number
RawPhones ==
    { <<"+","9","1"," ","9","8","7","6","5"," ","4","3","2","1","0">>,
      <<"9","8","7","6","5","4","3","2","1","0">>,
      <<"0","7","0","0","0","0","0","0","0","0","1">>,
      <<"5","8","7","6","5","4","3","2","1","0">> }
PaymentIds == {"pay_1", "pay_2"}
PaymentPool == <<"pay_1", "pay_2", "pay_3", "pay_4">>
\* what validating the request's Authorization header yields: 0 for a missing,
\* malformed, invalid or expired token, else the subject of a valid access token
AuthSubjects == 0..MaxUsers
\* ratings a request may carry: two valid ones and one on each side of the range
RatingInputs == {MIN_RATING - 1, MAX_RATING - 1, MAX_RATING, MAX_RATING + 1}

-----------------------------------------------------------------------------
(* Queries *)

\* table t with one more row
InsertReplacing(t, row) == SetToBag({row})

Insert(t, row) == t (+) SetToBag({row})

\* table t with one copy of row deleted
Delete(t, row) == t (-) SetToBag({row})

\* the number of rows of table t
Rows(t) == BagCardinality(t)

RECURSIVE CountOver(_, _)
\* the number of rows of t among the distinct rows S
CountOver(t, S) ==
    IF S = {} THEN 0
    ELSE LET r == CHOOSE x \in S : TRUE IN CopiesIn(r, t) + CountOver(t, S \ {r})

\* len(select(T).where(user_id == u, worker_id == w).all())
NumPair(t, u, w) ==
    CountOver(t, {r \in BagToSet(t) : r.user_id = u /\ r.worker_id = w})

\* session.get(Worker, w) is not None
WorkerExists(w) == w \in 1..Len(workers)

\* get_user_from_token: the user row of a valid access token's subject, 0 for None
GetUserFromToken(auth) == IF auth \in 1..Len(users) THEN auth ELSE 0

RECURSIVE SumOver(_, _)
\* sum of rating over the rows of t among the distinct rows S
SumOver(t, S) ==
    IF S = {} THEN 0
    ELSE LET r == CHOOSE x \in S : TRUE IN r.rating * CopiesIn(r, t) + SumOver(t, S \ {r})

\* func.sum(Review.rating) where worker_id = w
SumRatings(t, w) == SumOver(t, {r \in BagToSet(t) : r.worker_id = w})

\* func.count(Review.id) where worker_id = w
CountRatings(t, w) == CountOver(t, {r \in BagToSet(t) : r.worker_id = w})

\* round(float(avg), 1) in tenths, avg = sum/n: Python rounds to the nearest tenth and
\* a tie to the even tenth.  A mean of n < 20 integers that lies halfway between two
\* tenths is a multiple of 1/4 and so an exact float: the tie rule applies to it as is.
Round1(sum, n) ==
    LET q == (10 * sum) \div n
        r == (10 * sum) % n
    IN  IF 2 * r < n THEN q
        ELSE IF 2 * r > n THEN q + 1
        ELSE IF q % 2 = 0 THEN q ELSE q + 1

NoResp == [op |-> NONE, user_id |-> 0, status |-> NONE, phone |-> NONE, items |-> {}]

\* a response: the endpoint, the user the request acted as (0 for none), its outcome,
\* the phone field of a single worker representation or unlock answer, and the
\* entries of a list
Response(op, user, status, phone, items) ==
    [op |-> op, user_id |-> user, status |-> status, phone |-> phone, items |-> items]

-----------------------------------------------------------------------------
(* Worker endpoints: every worker representation carries the placeholder *)

\* the phone field create_worker puts in its response
CreateWorkerPhoneField(stored) == LOCKED

\* POST /api/workers/
CreateWorker(phone) ==
    /\ IF \E i \in 1..Len(workers) : workers[i].phone = phone
       THEN /\ resp' = Response("create_worker", 0, "AlreadyRegistered", NONE, {})
            /\ UNCHANGED workers
       ELSE /\ Len(workers) < MaxWorkers
            /\ workers' = Append(workers, [phone |-> phone, rating_avg |-> 0, rating_count |-> 0])
            /\ resp' = Response("create_worker", 0, "created", CreateWorkerPhoneField(phone), {})
    /\ UNCHANGED <<unlocks, reviews, favorites, users, otp_codes, now, reqs, issued>>

\* the phone field search_workers puts in each result
SearchPhoneField(stored) == LOCKED

\* GET /api/workers/ (the city/category/salary filters are not modelled: every worker
\* is a candidate result)
SearchWorkers ==
    /\ resp' = Response("search_workers", 0, "ok", NONE,
                        {[worker_id |-> i, phone |-> SearchPhoneField(workers[i].phone)] :
                            i \in 1..Len(workers)})
    /\ UNCHANGED <<workers, unlocks, reviews, favorites, users, otp_codes, now, reqs, issued>>

\* the profile with the stored phone left in
ProfilePhoneFieldStored(stored) == stored

\* the phone field get_worker_profile puts in its response
ProfilePhoneField(stored) == LOCKED

\* GET /api/workers/{worker_id}
GetWorkerProfile(w) ==
    /\ resp' = IF WorkerExists(w)
               THEN Response("get_worker_profile", 0, "ok", ProfilePhoneField(workers[w].phone), {})
               ELSE Response("get_worker_profile", 0, "WorkerNotFound", NONE, {})
    /\ UNCHANGED <<workers, unlocks, reviews, favorites, users, otp_codes, now, reqs, issued>>

-----------------------------------------------------------------------------
(* UnlockLedger: POST /api/unlocks/ *)

\* the duplicate check with the user filter forgotten
ExistingUnlockByWorker(u, w) == \E r \in BagToSet(unlocks) : r.worker_id = w

\* STEP 1: select(Unlock).where(user_id, worker_id).first() found a row
ExistingUnlock(u, w) == NumPair(unlocks, u, w) > 0

\* STEP 3: the row Unlock(user_id, worker_id, payment_id) that is added and committed;
\* its user is the body's user_id, whatever token (auth) the request carries
UnlockRow(auth, u, w, p) ==
    [user_id |-> u, worker_id |-> w, payment_id |-> p, amount |-> UNLOCK_AMOUNT,
     created_at |-> now]

\* the answer of the branch that found an existing row
AlreadyUnlockedAnswer(u, w) ==
    Response("unlock", u, "already_unlocked", IF WorkerExists(w) THEN workers[w].phone ELSE UNKNOWN, {})

\* the answer after the insert with the 404 forgotten
UnlockedAnswerUnknown(u, w) ==
    Response("unlock", u, "success", IF WorkerExists(w) THEN workers[w].phone ELSE UNKNOWN, {})

\* STEP 4: the answer after the insert: the worker is fetched only now
UnlockedAnswer(u, w) ==
    IF WorkerExists(w)
    THEN Response("unlock", u, "success", workers[w].phone, {})
    ELSE Response("unlock", u, "WorkerNotFound", NONE, {})

\* unlock_contact, run without interleaving
UnlockContact(auth, u, w, p) ==
    /\ IF ExistingUnlock(u, w)
       THEN /\ resp' = AlreadyUnlockedAnswer(u, w)
            /\ UNCHANGED unlocks
       ELSE /\ Rows(unlocks) < MaxUnlocks
            /\ unlocks' = Insert(unlocks, UnlockRow(auth, u, w, p))
            /\ resp' = UnlockedAnswer(u, w)
    /\ UNCHANGED <<workers, reviews, favorites, users, otp_codes, now, reqs, issued>>

\* the phone field of one entry of get_my_unlocks
MyUnlocksPhoneField(stored) == stored

\* the listing with the user filter forgotten
AllUnlockRows(user) == BagToSet(unlocks)

\* the rows get_my_unlocks selects for the token's user
MyUnlockRows(user) == {r \in BagToSet(unlocks) : r.user_id = user}

\* GET /api/users/me/unlocks
GetMyUnlocks(auth) ==
    /\ resp' = LET user == GetUserFromToken(auth) IN
               IF user = 0
               THEN Response("get_my_unlocks", 0, "AuthInvalid", NONE, {})
               ELSE Response("get_my_unlocks", user, "ok", NONE,
                        {[worker_id |-> r.worker_id,
                          phone |-> MyUnlocksPhoneField(workers[r.worker_id].phone)] :
                            r \in {x \in MyUnlockRows(user) : WorkerExists(x.worker_id)}})
    /\ UNCHANGED <<workers, unlocks, reviews, favorites, users, otp_codes, now, reqs, issued>>

-----------------------------------------------------------------------------
(* ReviewGate: POST /api/reviews/ *)

\* ReviewCreateRequest.rating: Field(ge=1, le=5)
ValidRating(rating) == rating >= MIN_RATING /\ rating <= MAX_RATING

\* the unlock check with the user filter forgotten
UnlockExistsAnyUser(u, w) == \E r \in BagToSet(unlocks) : r.worker_id = w

\* the unlock check that lets everyone through
UnlockExistsAlways(u, w) == TRUE

\* the unlock check of create_review
UnlockExists(u, w) == NumPair(unlocks, u, w) > 0

\* the duplicate check that never finds a row
ExistingReviewNever(u, w) == FALSE

\* the duplicate check of create_review
ExistingReview(u, w) == NumPair(reviews, u, w) > 0

\* the row create_review adds
ReviewRow(auth, u, w, rating) == [user_id |-> u, worker_id |-> w, rating |-> rating]

\* the workers table after worker w's aggregate is recomputed over the reviews t;
\* nothing is written when the worker row is missing
WithAggregate(wk, t, w) ==
    IF w \in 1..Len(wk)
    THEN [wk EXCEPT ![w].rating_avg = Round1(SumRatings(t, w), CountRatings(t, w)),
                    ![w].rating_count = CountRatings(t, w)]
    ELSE wk

\* create_review, run without interleaving
CreateReview(auth, u, w, rating) ==
    /\ IF ~ValidRating(rating)
       THEN /\ resp' = Response("review", u, "InvalidRating", NONE, {})
            /\ UNCHANGED <<reviews, workers>>
       ELSE IF ~UnlockExists(u, w)
       THEN /\ resp' = Response("review", u, "NotUnlocked", NONE, {})
            /\ UNCHANGED <<reviews, workers>>
       ELSE IF ExistingReview(u, w)
       THEN /\ resp' = Response("review", u, "DuplicateReview", NONE, {})
            /\ UNCHANGED <<reviews, workers>>
       ELSE /\ reviews' = Insert(reviews, ReviewRow(auth, u, w, rating))
            /\ workers' = WithAggregate(workers, reviews', w)
            /\ resp' = Response("review", u, "success", NONE, {})
    /\ UNCHANGED <<unlocks, favorites, users, otp_codes, now, reqs, issued>>

-----------------------------------------------------------------------------
(* Favorites *)

\* POST /api/users/me/favorites/{worker_id}
AddFavorite(auth, w) ==
    LET user == GetUserFromToken(auth) IN
    /\ IF user = 0
       THEN /\ resp' = Response("add_favorite", 0, "AuthInvalid", NONE, {})
            /\ UNCHANGED favorites
       ELSE IF ~WorkerExists(w)
       THEN /\ resp' = Response("add_favorite", user, "WorkerNotFound", NONE, {})
            /\ UNCHANGED favorites
       ELSE IF NumPair(favorites, user, w) > 0
       THEN /\ resp' = Response("add_favorite", user, "already_favorited", NONE, {})
            /\ UNCHANGED favorites
       ELSE /\ Rows(favorites) < MaxFavorites
            /\ favorites' = Insert(favorites, [user_id |-> user, worker_id |-> w])
            /\ resp' = Response("add_favorite", user, "success", NONE, {})
    /\ UNCHANGED <<workers, unlocks, reviews, users, otp_codes, now, reqs, issued>>

\* DELETE /api/users/me/favorites/{worker_id}
RemoveFavorite(auth, w) ==
    LET user == GetUserFromToken(auth) IN
    /\ IF user = 0
       THEN /\ resp' = Response("remove_favorite", 0, "AuthInvalid", NONE, {})
            /\ UNCHANGED favorites
       ELSE IF NumPair(favorites, user, w) = 0
       THEN /\ resp' = Response("remove_favorite", user, "FavoriteNotFound", NONE, {})
            /\ UNCHANGED favorites
       ELSE /\ favorites' = Delete(favorites, [user_id |-> user, worker_id |-> w])
            /\ resp' = Response("remove_favorite", user, "success", NONE, {})
    /\ UNCHANGED <<workers, unlocks, reviews, users, otp_codes, now, reqs, issued>>

\* the phone field of one entry of get_my_favorites
FavoritesPhoneField(stored) == LOCKED

\* GET /api/users/me/favorites
GetMyFavorites(auth) ==
    /\ resp' = LET user == GetUserFromToken(auth) IN
               IF user = 0
               THEN Response("get_my_favorites", 0, "AuthInvalid", NONE, {})
               ELSE Response("get_my_favorites", user, "ok", NONE,
                        {[worker_id |-> r.worker_id,
                          phone |-> FavoritesPhoneField(workers[r.worker_id].phone)] :
                            r \in {x \in BagToSet(favorites) :
                                     x.user_id = user /\ WorkerExists(x.worker_id)}})
    /\ UNCHANGED <<workers, unlocks, reviews, favorites, users, otp_codes, now, reqs, issued>>

-----------------------------------------------------------------------------
(* PhoneNormalizer and OTPLedger: app/services/otp.py *)

Digits == {"0", "1", "2", "3", "4", "5", "6", "7", "8", "9"}

RECURSIVE FilterDigits(_)
\* ''.join(filter(str.isdigit, phone))
FilterDigits(phone) ==
    IF phone = <<>> THEN <<>>
    ELSE (IF Head(phone) \in Digits THEN <<Head(phone)>> ELSE <<>>) \o FilterDigits(Tail(phone))

normalize_phone_greedy(phone) ==
    LET digits == FilterDigits(phone) IN
    IF Len(digits) >= 2 /\ digits[1] = "9" /\ digits[2] = "1" THEN SubSeq(digits, 3, Len(digits))
    ELSE IF Len(digits) >= 1 /\ digits[1] = "0" THEN SubSeq(digits, 2, Len(digits))
    ELSE digits

normalize_phone(phone) ==
    LET digits == FilterDigits(phone) IN
    IF Len(digits) = 12 /\ digits[1] = "9" /\ digits[2] = "1" THEN SubSeq(digits, 3, 12)
    ELSE IF Len(digits) = 11 /\ digits[1] = "0" THEN SubSeq(digits, 2, 11)
    ELSE digits

\* a validation that takes any ten digits
is_valid_indian_phone_any_start(phone) ==
    /\ Len(phone) = 10
    /\ \A i \in 1..Len(phone) : phone[i] \in Digits

is_valid_indian_phone(phone) ==
    /\ Len(phone) = 10
    /\ \A i \in 1..Len(phone) : phone[i] \in Digits
    /\ phone[1] \in {"6", "7", "8", "9"}

\* the rows is_rate_limited counts: OTPCode.phone == phone, created_at >= cutoff_time
RecentRows(phone) ==
    {i \in 1..Len(otp_codes) :
        /\ otp_codes[i].phone = phone
        /\ otp_codes[i].created_at >= now - RATE_LIMIT_MINUTES}

\* a limiter that lets one more code through
is_rate_limited_above(phone) == Cardinality(RecentRows(phone)) > RATE_LIMIT_COUNT

is_rate_limited(phone) == Cardinality(RecentRows(phone)) >= RATE_LIMIT_COUNT

\* OTPCode(phone, code, expires_at = generate_expiry()), created_at = utcnow()
OtpRow(phone, code) ==
    [phone |-> phone, code |-> code, created_at |-> now,
     expires_at |-> now + OTP_EXPIRY_MINUTES, verified |-> FALSE, attempts |-> 0]

SendStatusAlways(sent) == "success"

\* what send_otp tells the caller once the row is committed and _send_sms has returned
SendStatus(sent) == IF sent THEN "success" ELSE "SendFailed"

\* POST /api/auth/send-otp: send_otp with the code generate_otp drew and the outcome
\* of _send_sms (the console provider always delivers, the others may fail)
SendOtp(raw, code, sent) ==
    LET phone == normalize_phone(raw) IN
    /\ IF ~is_valid_indian_phone(phone)
       THEN /\ resp' = Response("send_otp", 0, "InvalidPhone", NONE, {})
            /\ UNCHANGED otp_codes
       ELSE IF is_rate_limited(phone)
       THEN /\ resp' = Response("send_otp", 0, "RateLimited", NONE, {})
            /\ UNCHANGED otp_codes
       ELSE /\ Len(otp_codes) < MaxOtpRows
            /\ otp_codes' = Append(otp_codes, OtpRow(phone, code))
            /\ resp' = Response("send_otp", 0, SendStatus(sent), NONE, {})
    /\ UNCHANGED <<workers, unlocks, reviews, favorites, users, now, reqs, issued>>

\* the selection with a row still good at the instant it expires
ActiveRowsUntilExpiry(phone) ==
    {i \in 1..Len(otp_codes) :
        /\ otp_codes[i].phone = phone
        /\ otp_codes[i].expires_at >= now
        /\ ~otp_codes[i].verified}

\* the selection with the expiry filter forgotten
ActiveRowsIgnoringExpiry(phone) ==
    {i \in 1..Len(otp_codes) : otp_codes[i].phone = phone /\ ~otp_codes[i].verified}

\* the rows verify_otp selects from: phone, expires_at > now, verified == False
ActiveRows(phone) ==
    {i \in 1..Len(otp_codes) :
        /\ otp_codes[i].phone = phone
        /\ otp_codes[i].expires_at > now
        /\ ~otp_codes[i].verified}

\* the selection ordered the wrong way round
MostRecentAscending(S) == CHOOSE i \in S : \A j \in S : i <= j

\* order_by(created_at.desc()).first(): created_at has microsecond resolution, so of
\* the rows created in the same minute the one inserted last is the most recent
MostRecent(S) == CHOOSE i \in S : \A j \in S : j <= i

\* User(phone = phone, firebase_uid = uid): role and is_worker take their defaults
NewUser(phone, uid) ==
    [phone |-> phone, firebase_uid |-> uid, role |-> "employer", is_worker |-> FALSE,
     worker_id |-> 0]

\* select(User).where(User.phone == phone).first(): the id of the row, 0 for None
UserByPhone(phone) ==
    IF \E i \in 1..Len(users) : users[i].phone = phone
    THEN CHOOSE i \in 1..Len(users) : users[i].phone = phone
    ELSE 0

\* get_or_create_user: the table it leaves
GetOrCreateUserAlways(phone) == Append(users, NewUser(phone, NONE))

GetOrCreateUser(phone) ==
    IF UserByPhone(phone) # 0 THEN users ELSE Append(users, NewUser(phone, NONE))

\* get_or_create_user: the id of the user it returns
GetOrCreateUserId(phone) ==
    IF UserByPhone(phone) # 0 THEN UserByPhone(phone) ELSE Len(users) + 1

\* get_or_create_user: is_new
GetOrCreateIsNew(phone) == UserByPhone(phone) = 0

\* create_access_token(user): the claims, signed with SECRET_KEY
create_access_token(id, user) ==
    [sub |-> id, phone |-> user.phone, role |-> user.role, is_worker |-> user.is_worker,
     exp |-> now + ACCESS_TOKEN_EXPIRE_MINUTES, type |-> "access", key |-> SECRET_KEY]

\* create_refresh_token(user)
create_refresh_token(id, user) ==
    [sub |-> id, phone |-> user.phone,
     exp |-> now + REFRESH_TOKEN_EXPIRE_DAYS * MinutesPerDay, type |-> "refresh",
     key |-> SECRET_KEY]

\* create_tokens(user): TokenResponse
create_tokens(id, user) ==
    [access_token |-> create_access_token(id, user),
     refresh_token |-> create_refresh_token(id, user),
     expires_in |-> ACCESS_TOKEN_EXPIRE_MINUTES * 60,
     user |-> [id |-> id, phone |-> user.phone, role |-> user.role,
               is_worker |-> user.is_worker, worker_id |-> user.worker_id]]

\* the two tokens of a TokenResponse
TokensOf(tokens) == {tokens.access_token, tokens.refresh_token}

\* the answer of a sign-in endpoint: the request it answers, and on success is_new_user
\* and the TokenResponse
AuthFailure(op, status, req) == Response(op, 0, status, NONE, {}) @@ [req |-> req]
AuthSuccess(op, id, req, is_new, tokens) ==
    Response(op, id, "success", NONE, {}) @@ [req |-> req, is_new |-> is_new, tokens |-> tokens]

\* the attempts left, computed before the increment
RemainingBeforeIncrement(attempts) == MAX_OTP_ATTEMPTS - attempts + 1

\* verify_otp: remaining = MAX_OTP_ATTEMPTS - otp_record.attempts, after the
\* increment; the number the message "Incorrect OTP. N attempts remaining." carries
Remaining(attempts) == MAX_OTP_ATTEMPTS - attempts

\* the 401 of a wrong code: its detail carries the attempts remaining
IncorrectCode(req, attempts) ==
    AuthFailure("verify_otp", "IncorrectCode", req) @@ [remaining |-> Remaining(attempts)]

\* a limit that lets a fourth wrong code through
TooManyAttemptsAbove(row) == row.attempts > MAX_OTP_ATTEMPTS

\* verify_otp: otp_record.attempts >= MAX_OTP_ATTEMPTS
TooManyAttempts(row) == row.attempts >= MAX_OTP_ATTEMPTS

\* POST /api/auth/verify-otp: verify_otp, then on success get_or_create_user and
\* create_tokens
VerifyOtp(raw, code) ==
    LET phone == normalize_phone(normalize_phone(raw))
        rows == ActiveRows(phone)
        i == MostRecent(rows)
        req == [phone |-> phone, code |-> code]
    IN
    /\ IF rows = {}
       THEN /\ resp' = AuthFailure("verify_otp", "CodeNotFound", req)
            /\ UNCHANGED <<otp_codes, users, issued>>
       ELSE IF TooManyAttempts(otp_codes[i])
       THEN /\ resp' = AuthFailure("verify_otp", "TooManyAttempts", req)
            /\ UNCHANGED <<otp_codes, users, issued>>
       ELSE IF otp_codes[i].code # code
       THEN /\ otp_codes' = [otp_codes EXCEPT ![i].attempts = @ + 1]
            /\ resp' = IncorrectCode(req, otp_codes[i].attempts + 1)
            /\ UNCHANGED <<users, issued>>
       ELSE /\ otp_codes' = [otp_codes EXCEPT ![i].verified = TRUE]
            /\ users' = GetOrCreateUser(phone)
            /\ resp' = AuthSuccess("verify_otp", GetOrCreateUserId(phone), req,
                                   GetOrCreateIsNew(phone),
                                   create_tokens(GetOrCreateUserId(phone),
                                                 users'[GetOrCreateUserId(phone)]))
            /\ issued' = issued \cup TokensOf(resp'.tokens)
    /\ UNCHANGED <<workers, unlocks, reviews, favorites, now, reqs>>

\* select(User).where(User.firebase_uid == firebase_uid).first(): the id of the row,
\* 0 for None
UserByUid(uid) ==
    IF \E i \in 1..Len(users) : users[i].firebase_uid = uid
    THEN CHOOSE i \in 1..Len(users) : users[i].firebase_uid = uid
    ELSE 0

FederatedByPhoneNever(phone) == 0

\* the second lookup of api_firebase_signin, by the normalized phone
FederatedByPhone(phone) == UserByPhone(phone)

\* POST /api/auth/firebase-signin.  What verify_firebase_token makes of the id token
\* is the assertion: ok is FALSE where it returns None, phone is <<>> where the token
\* carries no phone number.
FirebaseSignIn(assertion) ==
    LET phone == normalize_phone(assertion.phone)
        id == IF UserByUid(assertion.uid) # 0 THEN UserByUid(assertion.uid)
              ELSE IF FederatedByPhone(phone) # 0 THEN FederatedByPhone(phone)
              ELSE Len(users) + 1
    IN
    /\ IF ~assertion.ok
       THEN /\ resp' = AuthFailure("firebase_signin", "InvalidFirebaseToken", assertion)
            /\ UNCHANGED <<users, issued>>
       ELSE IF assertion.phone = <<>>
       THEN /\ resp' = AuthFailure("firebase_signin", "PhoneMissing", assertion)
            /\ UNCHANGED <<users, issued>>
       ELSE /\ users' = IF UserByUid(assertion.uid) # 0 THEN users
                        ELSE IF FederatedByPhone(phone) # 0
                        THEN [users EXCEPT ![FederatedByPhone(phone)].firebase_uid = assertion.uid]
                        ELSE Append(users, NewUser(phone, assertion.uid))
            /\ resp' = AuthSuccess("firebase_signin", id, assertion,
                                   UserByUid(assertion.uid) = 0 /\ FederatedByPhone(phone) = 0,
                                   create_tokens(id, users'[id]))
            /\ issued' = issued \cup TokensOf(resp'.tokens)
    /\ UNCHANGED <<workers, unlocks, reviews, favorites, otp_codes, now, reqs>>

\* time passes, d minutes at once
Tick(d) ==
    /\ now + d <= MaxTime
    /\ now' = now + d
    /\ UNCHANGED <<workers, unlocks, reviews, favorites, users, otp_codes, reqs, resp, issued>>

(***************************************************************************)
(* SessionTokens: app/services/auth.py.  A token is the record of its      *)
(* claims together with the key that signed it; the server keeps no record *)
(* of the tokens it hands out.                                             *)
(***************************************************************************)

\* what decode_token and the validators return for a token they reject (None)
NoPayload == [type |-> NONE]

\* a token whose signature does not verify under SECRET_KEY
Tampered(token) == [token EXCEPT !.key = "forged"]

\* a decoder that does not check the signature
decode_token_unsigned(token) == IF ~(token.exp < now) THEN token ELSE NoPayload

\* jwt.decode: the signature is checked, then exp: a token is refused once its exp
\* lies before the current time.  Every JWTError, whatever its cause, becomes None.
decode_token(token) ==
    IF token.key = SECRET_KEY /\ ~(token.exp < now) THEN token ELSE NoPayload

validate_access_token(token) ==
    LET payload == decode_token(token)
    IN  IF payload = NoPayload THEN NoPayload
        ELSE IF payload.type # "access" THEN NoPayload
        ELSE payload

validate_refresh_token_single_use(token) ==
    IF resp.op = "refresh" /\ resp.req = token THEN NoPayload
    ELSE IF decode_token(token) = NoPayload THEN NoPayload
    ELSE IF decode_token(token).type # "refresh" THEN NoPayload
    ELSE decode_token(token)

validate_refresh_token(token) ==
    LET payload == decode_token(token)
    IN  IF payload = NoPayload THEN NoPayload
        ELSE IF payload.type # "refresh" THEN NoPayload
        ELSE payload

\* session.get(User, user_id): the id of the row, 0 for None
get_user_by_id(user_id) == IF user_id \in 1..Len(users) THEN user_id ELSE 0

get_user_from_token(token) ==
    LET payload == validate_access_token(token)
    IN  IF payload = NoPayload THEN 0 ELSE get_user_by_id(payload.sub)

\* the user refresh_access_token builds the new tokens for, 0 where it returns None
refresh_access_token(refresh_token) ==
    LET payload == validate_refresh_token(refresh_token)
    IN  IF payload = NoPayload THEN 0 ELSE get_user_by_id(payload.sub)

\* POST /api/auth/refresh
Refresh(refresh_token) ==
    /\ IF refresh_access_token(refresh_token) = 0
       THEN /\ resp' = AuthFailure("refresh", "InvalidOrExpiredRefreshToken", refresh_token)
            /\ UNCHANGED issued
       ELSE /\ resp' = Response("refresh", refresh_access_token(refresh_token), "success",
                                NONE, {})
                       @@ [req |-> refresh_token,
                           tokens |-> create_tokens(refresh_access_token(refresh_token),
                                                    users[refresh_access_token(refresh_token)])]
            /\ issued' = issued \cup TokensOf(resp'.tokens)
    /\ UNCHANGED <<workers, unlocks, reviews, favorites, users, otp_codes, now, reqs>>

\* GET /api/auth/me, called with a bearer token
GetMe(token) ==
    /\ IF get_user_from_token(token) = 0
       THEN resp' = AuthFailure("get_me", "InvalidOrExpiredToken", token)
       ELSE resp' = Response("get_me", get_user_from_token(token), "ok", NONE, {})
                    @@ [req |-> token, profile |-> users[get_user_from_token(token)]]
    /\ UNCHANGED <<workers, unlocks, reviews, favorites, users, otp_codes, now, reqs, issued>>

\* POST /api/auth/register-worker, called with a bearer token
RegisterAsWorker(token) ==
    LET user == get_user_from_token(token)
    IN
    /\ IF user = 0
       THEN /\ resp' = AuthFailure("register_worker", "InvalidOrExpiredToken", token)
            /\ UNCHANGED <<workers, users>>
       ELSE IF users[user].is_worker /\ users[user].worker_id # 0
       THEN /\ resp' = AuthFailure("register_worker", "AlreadyWorker", token)
            /\ UNCHANGED <<workers, users>>
       ELSE IF \E w \in 1..Len(workers) : workers[w].phone = users[user].phone
       THEN /\ resp' = AuthFailure("register_worker", "AlreadyRegistered", token)
            /\ UNCHANGED <<workers, users>>
       ELSE /\ workers' = Append(workers, [phone |-> users[user].phone, rating_avg |-> 0,
                                           rating_count |-> 0])
            /\ users' = [users EXCEPT ![user].is_worker = TRUE,
                                      ![user].worker_id = Len(workers) + 1,
                                      ![user].role = "worker"]
            /\ resp' = Response("register_worker", user, "success", NONE, {})
                       @@ [req |-> token, worker_id |-> Len(workers) + 1]
    /\ UNCHANGED <<unlocks, reviews, favorites, otp_codes, now, reqs, issued>>

\* the clock reaches the instant t
TickTo(t) ==
    /\ now < t
    /\ now' = t
    /\ UNCHANGED <<workers, unlocks, reviews, favorites, users, otp_codes, reqs, resp, issued>>

-----------------------------------------------------------------------------
-----------------------------------------------------------------------------
(* Requests served concurrently: each statement a handler sends to the store is one  *)
(* step, and the statements of different requests interleave in any order.  A        *)
(* request in flight keeps its handler's locals: pc is the statement it runs next,   *)
(* answer its response once it is done, avg and cnt the aggregate it has read.       *)

Request(op, u, w, x, pc) ==
    [op |-> op, u |-> u, w |-> w, x |-> x, pc |-> pc, answer |-> NoResp, avg |-> 0, cnt |-> 0]

\* request i is an `op` request about to run statement `pc`
At(i, op, pc) == i \in 1..Len(reqs) /\ reqs[i].op = op /\ reqs[i].pc = pc

\* request i is done and answers `a`
Done(i, a) == [reqs EXCEPT ![i].pc = "done", ![i].answer = a]

\* POST /api/unlocks/ arrives
StartUnlock(u, w, p) ==
    /\ Len(reqs) < MaxRequests
    /\ reqs' = Append(reqs, Request("unlock", u, w, p, "check"))
    /\ UNCHANGED <<workers, unlocks, reviews, favorites, users, otp_codes, now, resp, issued>>

\* unlock_contact STEP 1: the select for an existing row, and the answer when one is found
UnlockCheck(i) ==
    /\ At(i, "unlock", "check")
    /\ reqs' = IF ExistingUnlock(reqs[i].u, reqs[i].w)
               THEN Done(i, AlreadyUnlockedAnswer(reqs[i].u, reqs[i].w))
               ELSE [reqs EXCEPT ![i].pc = "insert"]
    /\ UNCHANGED <<workers, unlocks, reviews, favorites, users, otp_codes, now, resp, issued>>

\* unlock_contact STEP 3: session.add(unlock_txn); session.commit().  The table has no
\* unique constraint, so the insert cannot conflict
UnlockInsert(i) ==
    /\ At(i, "unlock", "insert")
    /\ unlocks' = Insert(unlocks, UnlockRow(0, reqs[i].u, reqs[i].w, reqs[i].x))
    /\ reqs' = [reqs EXCEPT ![i].pc = "fetch"]
    /\ UNCHANGED <<workers, reviews, favorites, users, otp_codes, now, resp, issued>>

\* unlock_contact STEP 4: the worker is fetched and the answer built
UnlockFetch(i) ==
    /\ At(i, "unlock", "fetch")
    /\ reqs' = Done(i, UnlockedAnswer(reqs[i].u, reqs[i].w))
    /\ UNCHANGED <<workers, unlocks, reviews, favorites, users, otp_codes, now, resp, issued>>

\* POST /api/reviews/ arrives; the body is validated before the handler runs
StartReview(u, w, rating) ==
    /\ Len(reqs) < MaxRequests
    /\ reqs' = IF ValidRating(rating)
               THEN Append(reqs, Request("review", u, w, rating, "check_unlock"))
               ELSE Append(reqs, [Request("review", u, w, rating, "done") EXCEPT
                                     !.answer = Response("review", u, "InvalidRating", NONE, {})])
    /\ UNCHANGED <<workers, unlocks, reviews, favorites, users, otp_codes, now, resp, issued>>

\* create_review: the select for the pair's Unlock row
ReviewCheckUnlock(i) ==
    /\ At(i, "review", "check_unlock")
    /\ reqs' = IF UnlockExists(reqs[i].u, reqs[i].w)
               THEN [reqs EXCEPT ![i].pc = "check_duplicate"]
               ELSE Done(i, Response("review", reqs[i].u, "NotUnlocked", NONE, {}))
    /\ UNCHANGED <<workers, unlocks, reviews, favorites, users, otp_codes, now, resp, issued>>

\* create_review: the select for the pair's Review row
ReviewCheckDuplicate(i) ==
    /\ At(i, "review", "check_duplicate")
    /\ reqs' = IF ExistingReview(reqs[i].u, reqs[i].w)
               THEN Done(i, Response("review", reqs[i].u, "DuplicateReview", NONE, {}))
               ELSE [reqs EXCEPT ![i].pc = "insert"]
    /\ UNCHANGED <<workers, unlocks, reviews, favorites, users, otp_codes, now, resp, issued>>

\* create_review: session.add(db_review); session.commit().  The table has no unique
\* constraint, so the insert cannot conflict
ReviewInsert(i) ==
    /\ At(i, "review", "insert")
    /\ reviews' = Insert(reviews, ReviewRow(0, reqs[i].u, reqs[i].w, reqs[i].x))
    /\ reqs' = [reqs EXCEPT ![i].pc = "aggregate"]
    /\ UNCHANGED <<workers, unlocks, favorites, users, otp_codes, now, resp, issued>>

\* create_review: select avg(rating), count(id) over the worker's reviews
ReviewAggregate(i) ==
    /\ At(i, "review", "aggregate")
    /\ reqs' = [reqs EXCEPT ![i].pc = "write",
                            ![i].avg = Round1(SumRatings(reviews, reqs[i].w),
                                              CountRatings(reviews, reqs[i].w)),
                            ![i].cnt = CountRatings(reviews, reqs[i].w)]
    /\ UNCHANGED <<workers, unlocks, reviews, favorites, users, otp_codes, now, resp, issued>>

\* create_review: the aggregate read before is written to the worker row and committed
ReviewWrite(i) ==
    /\ At(i, "review", "write")
    /\ workers' = IF WorkerExists(reqs[i].w)
                  THEN [workers EXCEPT ![reqs[i].w].rating_avg = reqs[i].avg,
                                       ![reqs[i].w].rating_count = reqs[i].cnt]
                  ELSE workers
    /\ reqs' = Done(i, Response("review", reqs[i].u, "success", NONE, {}))
    /\ UNCHANGED <<unlocks, reviews, favorites, users, otp_codes, now, resp, issued>>

\* the UNIQUE index on users.phone and on users.firebase_uid (NULLs do not collide):
\* a row other than row `self` holds the value
PhoneTakenNever(phone, self) == FALSE

PhoneTaken(phone, self) ==
    \E j \in 1..Len(users) : j # self /\ users[j].phone = phone

UidTaken(uid, self) ==
    \E j \in 1..Len(users) : j # self /\ users[j].firebase_uid = uid

\* a sign-in request is done: the answer carries the tokens create_tokens builds from
\* the user row
SignedIn(i, id, is_new, user) ==
    Done(i, AuthSuccess(reqs[i].op, id, reqs[i].x, is_new, create_tokens(id, user)))

\* a sign-in request is done without tokens
Refused(i, status) == Done(i, AuthFailure(reqs[i].op, status, reqs[i].x))

\* POST /api/auth/verify-otp arrives
StartVerify(raw, code) ==
    /\ Len(reqs) < MaxRequests
    /\ reqs' = Append(reqs, Request("verify_otp", 0, 0,
                                    [phone |-> normalize_phone(normalize_phone(raw)),
                                     code |-> code], "otp_select"))
    /\ UNCHANGED <<workers, unlocks, reviews, favorites, users, otp_codes, now, resp, issued>>

\* verify_otp: the select of the most recent unexpired unverified row (kept in w, its
\* attempts in cnt), and the answers given without a write
VerifySelect(i) ==
    /\ At(i, "verify_otp", "otp_select")
    /\ reqs' = IF ActiveRows(reqs[i].x.phone) = {}
               THEN Refused(i, "CodeNotFound")
               ELSE IF TooManyAttempts(otp_codes[MostRecent(ActiveRows(reqs[i].x.phone))])
               THEN Refused(i, "TooManyAttempts")
               ELSE [reqs EXCEPT ![i].pc = "otp_write",
                                 ![i].w = MostRecent(ActiveRows(reqs[i].x.phone)),
                                 ![i].cnt = otp_codes[MostRecent(ActiveRows(reqs[i].x.phone))].attempts]
    /\ UNCHANGED <<workers, unlocks, reviews, favorites, users, otp_codes, now, resp, issued>>

\* verify_otp: the commit of attempts + 1 after a wrong code, of verified = True after
\* the right one
VerifyWrite(i) ==
    /\ At(i, "verify_otp", "otp_write")
    /\ IF otp_codes[reqs[i].w].code # reqs[i].x.code
       THEN /\ otp_codes' = [otp_codes EXCEPT ![reqs[i].w].attempts = reqs[i].cnt + 1]
            /\ reqs' = Done(i, IncorrectCode(reqs[i].x, reqs[i].cnt + 1))
       ELSE /\ otp_codes' = [otp_codes EXCEPT ![reqs[i].w].verified = TRUE]
            /\ reqs' = [reqs EXCEPT ![i].pc = "user_select"]
    /\ UNCHANGED <<workers, unlocks, reviews, favorites, users, now, resp, issued>>

\* get_or_create_user: the select by phone, and the answer when the user exists
VerifyUserSelect(i) ==
    /\ At(i, "verify_otp", "user_select")
    /\ IF UserByPhone(reqs[i].x.phone) # 0
       THEN /\ reqs' = SignedIn(i, UserByPhone(reqs[i].x.phone), FALSE,
                                 users[UserByPhone(reqs[i].x.phone)])
            /\ issued' = issued \cup TokensOf(reqs'[i].answer.tokens)
       ELSE /\ reqs' = [reqs EXCEPT ![i].pc = "user_insert"]
            /\ UNCHANGED issued
    /\ UNCHANGED <<workers, unlocks, reviews, favorites, users, otp_codes, now, resp>>

\* get_or_create_user: session.add(User(phone=phone)); session.commit().  The insert
\* fails with IntegrityError when a row with the phone has been committed meanwhile
VerifyUserInsert(i) ==
    /\ At(i, "verify_otp", "user_insert")
    /\ IF PhoneTaken(reqs[i].x.phone, 0)
       THEN /\ reqs' = Refused(i, "IntegrityError")
            /\ UNCHANGED <<users, issued>>
       ELSE /\ users' = Append(users, NewUser(reqs[i].x.phone, NONE))
            /\ reqs' = SignedIn(i, Len(users) + 1, TRUE, NewUser(reqs[i].x.phone, NONE))
            /\ issued' = issued \cup TokensOf(reqs'[i].answer.tokens)
    /\ UNCHANGED <<workers, unlocks, reviews, favorites, otp_codes, now, resp>>

\* POST /api/auth/firebase-signin arrives: verify_firebase_token and the phone test
StartFirebase(assertion) ==
    /\ Len(reqs) < MaxRequests
    /\ reqs' = IF ~assertion.ok
               THEN Append(reqs, [Request("firebase_signin", 0, 0, assertion, "done") EXCEPT
                        !.answer = AuthFailure("firebase_signin", "InvalidFirebaseToken", assertion)])
               ELSE IF assertion.phone = <<>>
               THEN Append(reqs, [Request("firebase_signin", 0, 0, assertion, "done") EXCEPT
                        !.answer = AuthFailure("firebase_signin", "PhoneMissing", assertion)])
               ELSE Append(reqs, Request("firebase_signin", 0, 0, assertion, "uid_select"))
    /\ UNCHANGED <<workers, unlocks, reviews, favorites, users, otp_codes, now, resp, issued>>

\* api_firebase_signin: the select by firebase_uid, and the answer when it finds a row
FirebaseUidSelect(i) ==
    /\ At(i, "firebase_signin", "uid_select")
    /\ IF UserByUid(reqs[i].x.uid) # 0
       THEN /\ reqs' = SignedIn(i, UserByUid(reqs[i].x.uid), FALSE, users[UserByUid(reqs[i].x.uid)])
            /\ issued' = issued \cup TokensOf(reqs'[i].answer.tokens)
       ELSE /\ reqs' = [reqs EXCEPT ![i].pc = "phone_select"]
            /\ UNCHANGED issued
    /\ UNCHANGED <<workers, unlocks, reviews, favorites, users, otp_codes, now, resp>>

\* api_firebase_signin: the select by the normalized phone (the row found is kept in u)
FirebasePhoneSelect(i) ==
    /\ At(i, "firebase_signin", "phone_select")
    /\ reqs' = IF FederatedByPhone(normalize_phone(reqs[i].x.phone)) # 0
               THEN [reqs EXCEPT ![i].pc = "link",
                                 ![i].u = FederatedByPhone(normalize_phone(reqs[i].x.phone))]
               ELSE [reqs EXCEPT ![i].pc = "user_insert"]
    /\ UNCHANGED <<workers, unlocks, reviews, favorites, users, otp_codes, now, resp, issued>>

\* api_firebase_signin: user.firebase_uid = firebase_uid; session.commit().  The update
\* fails with IntegrityError when another row has taken the uid meanwhile
FirebaseLink(i) ==
    /\ At(i, "firebase_signin", "link")
    /\ IF UidTaken(reqs[i].x.uid, reqs[i].u)
       THEN /\ reqs' = Refused(i, "IntegrityError")
            /\ UNCHANGED <<users, issued>>
       ELSE /\ users' = [users EXCEPT ![reqs[i].u].firebase_uid = reqs[i].x.uid]
            /\ reqs' = SignedIn(i, reqs[i].u, FALSE,
                                 [users[reqs[i].u] EXCEPT !.firebase_uid = reqs[i].x.uid])
            /\ issued' = issued \cup TokensOf(reqs'[i].answer.tokens)
    /\ UNCHANGED <<workers, unlocks, reviews, favorites, otp_codes, now, resp>>

\* api_firebase_signin: session.add(User(phone, firebase_uid)); session.commit().  The
\* insert fails with IntegrityError when the phone or the uid has been taken meanwhile
FirebaseInsert(i) ==
    /\ At(i, "firebase_signin", "user_insert")
    /\ IF PhoneTaken(normalize_phone(reqs[i].x.phone), 0) \/ UidTaken(reqs[i].x.uid, 0)
       THEN /\ reqs' = Refused(i, "IntegrityError")
            /\ UNCHANGED <<users, issued>>
       ELSE /\ users' = Append(users, NewUser(normalize_phone(reqs[i].x.phone), reqs[i].x.uid))
            /\ reqs' = SignedIn(i, Len(users) + 1, TRUE,
                                 NewUser(normalize_phone(reqs[i].x.phone), reqs[i].x.uid))
            /\ issued' = issued \cup TokensOf(reqs'[i].answer.tokens)
    /\ UNCHANGED <<workers, unlocks, reviews, favorites, otp_codes, now, resp>>


-----------------------------------------------------------------------------
(* Specifications *)

\* the store of a running deployment before any worker, unlock or review exists:
\* MaxUsers users have signed in
Init ==
    /\ workers = <<>>
    /\ unlocks = EmptyBag
    /\ reviews = EmptyBag
    /\ favorites = EmptyBag
    /\ users = [i \in 1..MaxUsers |-> NewUser(UserPhones[i], NONE)]
    /\ otp_codes = <<>>
    /\ now = 0
    /\ reqs = <<>>
    /\ resp = NoResp
    /\ issued = {}

\* the unlock ledger and the review gate, requests served one at a time
Next ==
    \/ CreateWorker(PhonePool[Len(workers) + 1])
    \/ \E u \in UserIds, w \in WorkerIds : UnlockContact(0, u, w, "pay_1")
    \/ \E u \in UserIds, w \in WorkerIds, r \in RatingInputs : CreateReview(0, u, w, r)

Spec == Init /\ [][Next]_vars

\* the unlock ledger alone, with every input of a request
NextUnlock ==
    \/ \E ph \in WorkerPhones : CreateWorker(ph)
    \/ \E a \in AuthSubjects, u \in UserIds, w \in WorkerIds, p \in PaymentIds :
          UnlockContact(a, u, w, p)
    \/ \E a \in AuthSubjects : GetMyUnlocks(a)

SpecUnlock == Init /\ [][NextUnlock]_vars

\* every endpoint that answers with a worker representation or a phone
NextViews ==
    \/ CreateWorker(PhonePool[Len(workers) + 1])
    \/ SearchWorkers
    \/ \E w \in WorkerIds : GetWorkerProfile(w)
    \/ \E u \in UserIds, w \in WorkerIds : UnlockContact(0, u, w, "pay_1")
    \/ \E a \in AuthSubjects : GetMyUnlocks(a)
    \/ \E a \in AuthSubjects, w \in WorkerIds : AddFavorite(a, w)
    \/ \E a \in AuthSubjects, w \in WorkerIds : RemoveFavorite(a, w)
    \/ \E a \in AuthSubjects : GetMyFavorites(a)

SpecViews == Init /\ [][NextViews]_vars

\* a deployment with one worker registered and nothing unlocked
InitRaceUnlock ==
    /\ workers = <<[phone |-> PhonePool[1], rating_avg |-> 0, rating_count |-> 0]>>
    /\ unlocks = EmptyBag
    /\ reviews = EmptyBag
    /\ favorites = EmptyBag
    /\ users = [i \in 1..MaxUsers |-> NewUser(UserPhones[i], NONE)]
    /\ otp_codes = <<>>
    /\ now = 0
    /\ reqs = <<>>
    /\ resp = NoResp
    /\ issued = {}

\* unlock requests by users 1 and 2 for worker 1 and for the unregistered worker id 2,
\* each with its own payment reference, their statements interleaved
NextRaceUnlock ==
    \/ \E u \in {1, 2}, w \in {1, 2} : StartUnlock(u, w, PaymentPool[Len(reqs) + 1])
    \/ \E i \in 1..MaxRequests : UnlockCheck(i)
    \/ \E i \in 1..MaxRequests : UnlockInsert(i)
    \/ \E i \in 1..MaxRequests : UnlockFetch(i)

SpecRaceUnlock == InitRaceUnlock /\ [][NextRaceUnlock]_vars

\* a deployment with one worker registered, unlocked by users 1 and 2
InitRaceReview ==
    /\ now = 0
    /\ workers = <<[phone |-> PhonePool[1], rating_avg |-> 0, rating_count |-> 0]>>
    /\ unlocks = SetToBag({UnlockRow(0, 1, 1, "pay_1"), UnlockRow(0, 2, 1, "pay_2")})
    /\ reviews = EmptyBag
    /\ favorites = EmptyBag
    /\ users = [i \in 1..MaxUsers |-> NewUser(UserPhones[i], NONE)]
    /\ otp_codes = <<>>
    /\ reqs = <<>>
    /\ resp = NoResp
    /\ issued = {}

\* review requests for worker 1 by users 1, 2 and 3 (who has unlocked nothing), their
\* statements interleaved
NextRaceReview ==
    \/ \E u \in {1, 2, 3}, rt \in RatingInputs : StartReview(u, 1, rt)
    \/ \E i \in 1..MaxRequests : ReviewCheckUnlock(i)
    \/ \E i \in 1..MaxRequests : ReviewCheckDuplicate(i)
    \/ \E i \in 1..MaxRequests : ReviewInsert(i)
    \/ \E i \in 1..MaxRequests : ReviewAggregate(i)
    \/ \E i \in 1..MaxRequests : ReviewWrite(i)

SpecRaceReview == InitRaceReview /\ [][NextRaceReview]_vars

\* a deployment to which no code was sent yet and nobody has signed in
InitOtp ==
    /\ workers = <<>>
    /\ unlocks = EmptyBag
    /\ reviews = EmptyBag
    /\ favorites = EmptyBag
    /\ users = <<>>
    /\ otp_codes = <<>>
    /\ now = 0
    /\ reqs = <<>>
    /\ resp = NoResp
    /\ issued = {}

\* the waits between requests: the lifetime of a code, and one minute more than the
\* rate-limit window
TickSteps == {OTP_EXPIRY_MINUTES, RATE_LIMIT_MINUTES + 1}

\* unlock requests and review requests of users 1 and 2 for worker 1, their statements
\* interleaved, starting with nothing unlocked
NextRaceGate ==
    \/ \E u \in {1, 2} : StartUnlock(u, 1, PaymentPool[Len(reqs) + 1])
    \/ \E i \in 1..MaxRequests : UnlockCheck(i)
    \/ \E i \in 1..MaxRequests : UnlockInsert(i)
    \/ \E i \in 1..MaxRequests : UnlockFetch(i)
    \/ \E u \in {1, 2} : StartReview(u, 1, MAX_RATING)
    \/ \E i \in 1..MaxRequests : ReviewCheckUnlock(i)
    \/ \E i \in 1..MaxRequests : ReviewCheckDuplicate(i)
    \/ \E i \in 1..MaxRequests : ReviewInsert(i)
    \/ \E i \in 1..MaxRequests : ReviewAggregate(i)
    \/ \E i \in 1..MaxRequests : ReviewWrite(i)

SpecRaceGate == InitRaceUnlock /\ [][NextRaceGate]_vars

\* the phone whose owner signs in
SignInPhones == { <<"9","8","7","6","5","4","3","2","1","0">> }

\* sending codes as time passes; the owner of one phone signs in with the code that
\* was sent
NextOtpSend ==
    \/ \E raw \in RawPhones, sent \in BOOLEAN : SendOtp(raw, "111111", sent)
    \/ \E raw \in SignInPhones : VerifyOtp(raw, "111111")
    \/ \E d \in TickSteps : Tick(d)

SpecOtpSend == InitOtp /\ [][NextOtpSend]_vars

\* POST /api/auth/send-otp arrives: normalize_phone and is_valid_indian_phone work on
\* the request alone
StartSend(raw, code) ==
    /\ Len(reqs) < MaxRequests
    /\ reqs' = IF is_valid_indian_phone(normalize_phone(raw))
               THEN Append(reqs, Request("send_otp", 0, 0,
                                         [phone |-> normalize_phone(raw), code |-> code],
                                         "count"))
               ELSE Append(reqs, [Request("send_otp", 0, 0,
                                          [phone |-> normalize_phone(raw), code |-> code],
                                          "done")
                                  EXCEPT !.answer = Response("send_otp", 0, "InvalidPhone",
                                                             NONE, {})])
    /\ UNCHANGED <<workers, unlocks, reviews, favorites, users, otp_codes, now, resp, issued>>

\* send_otp: is_rate_limited, the select of the rows of the trailing window
SendCount(i) ==
    /\ At(i, "send_otp", "count")
    /\ reqs' = IF is_rate_limited(reqs[i].x.phone)
               THEN Done(i, Response("send_otp", 0, "RateLimited", NONE, {}))
               ELSE [reqs EXCEPT ![i].pc = "insert"]
    /\ UNCHANGED <<workers, unlocks, reviews, favorites, users, otp_codes, now, resp, issued>>

\* send_otp: session.add(otp_record); session.commit(), then _send_sms
SendInsert(i, sent) ==
    /\ At(i, "send_otp", "insert")
    /\ Len(otp_codes) < MaxOtpRows
    /\ otp_codes' = Append(otp_codes, OtpRow(reqs[i].x.phone, reqs[i].x.code))
    /\ reqs' = Done(i, Response("send_otp", 0, SendStatus(sent), NONE, {}))
    /\ UNCHANGED <<workers, unlocks, reviews, favorites, users, now, resp, issued>>

\* two codes were sent to the phone a minute ago
InitRaceSend ==
    /\ workers = <<>>
    /\ unlocks = EmptyBag
    /\ reviews = EmptyBag
    /\ favorites = EmptyBag
    /\ users = <<>>
    /\ now = 1
    /\ otp_codes = [i \in 1..RATE_LIMIT_COUNT - 1 |->
                       [phone |-> CHOOSE ph \in SignInPhones : TRUE, code |-> "111111",
                        created_at |-> 0, expires_at |-> OTP_EXPIRY_MINUTES,
                        verified |-> FALSE, attempts |-> 0]]
    /\ reqs = <<>>
    /\ resp = NoResp
    /\ issued = {}

\* phones as typed in the requests that race: two spellings of the phone, and one
\* that is not a mobile number
RaceSendPhones ==
    SignInPhones \cup { <<"0","9","8","7","6","5","4","3","2","1","0">>, <<"9","8","7","6","5">> }

\* send requests for one phone, their statements interleaved, while time passes
NextRaceSend ==
    \/ \E raw \in RaceSendPhones : StartSend(raw, "222222")
    \/ \E i \in 1..MaxRequests : SendCount(i)
    \/ \E i \in 1..MaxRequests, sent \in BOOLEAN : SendInsert(i, sent)
    \/ Tick(OTP_EXPIRY_MINUTES)

SpecRaceSend == InitRaceSend /\ [][NextRaceSend]_vars

\* users 1 and 2 unlock workers and user 1 reviews them, while workers register and
\* time passes
NextLedger ==
    \/ CreateWorker(PhonePool[Len(workers) + 1])
    \/ \E u \in {1, 2}, w \in WorkerIds, p \in PaymentIds : UnlockContact(0, u, w, p)
    \/ \E w \in WorkerIds : CreateReview(0, 1, w, MAX_RATING)
    \/ Tick(OTP_EXPIRY_MINUTES)

SpecLedger == Init /\ [][NextLedger]_vars

\* the codes generate_otp draws here, and the phone that asks for codes and submits
\* them, as its owner types it
Codes == {"111111", "222222"}
VerifyPhones == { <<"+","9","1"," ","9","8","7","6","5"," ","4","3","2","1","0">> }

\* codes are sent, delivered and submitted, right or wrong, while they expire
NextOtpVerify ==
    \/ \E raw \in VerifyPhones, code \in Codes :
          Len(otp_codes) < MaxVerifyRows /\ SendOtp(raw, code, TRUE)
    \/ \E raw \in VerifyPhones, code \in Codes : VerifyOtp(raw, code)
    \/ Tick(OTP_EXPIRY_MINUTES)

SpecOtpVerify == InitOtp /\ [][NextOtpVerify]_vars

\* what verify_firebase_token returns: two accounts of the identity provider and two
\* phone numbers in the provider's spelling, a rejected id token, and a token without
\* a phone number
FirebaseUids == {"uidA", "uidB"}
FirebasePhones == { <<"+","9","1","9","8","7","6","5","4","3","2","1","0">>,
                    <<"+","9","1","7","0","0","0","0","0","0","0","0","1">> }
FirebaseAssertions ==
    [ok : {TRUE}, uid : FirebaseUids, phone : FirebasePhones]
    \cup {[ok |-> FALSE, uid |-> "uidA", phone |-> <<>>],
          [ok |-> TRUE, uid |-> "uidA", phone |-> <<>>]}

\* the same two numbers as their owners type them for a code
OtpPhones == { <<"9","8","7","6","5","4","3","2","1","0">>,
               <<"0","7","0","0","0","0","0","0","0","0","1">> }

\* users sign in on either channel, one request after the other
NextSignIn ==
    \/ \E raw \in OtpPhones :
          Len(otp_codes) < MaxVerifyRows /\ SendOtp(raw, "111111", TRUE)
    \/ \E raw \in OtpPhones : VerifyOtp(raw, "111111")
    \/ \E a \in FirebaseAssertions : FirebaseSignIn(a)

SpecSignIn == InitOtp /\ [][NextSignIn]_vars

\* the identity provider verifies numbers of any country: next to the assertions above,
\* one for "+14155550123"
AnyAssertions ==
    FirebaseAssertions
    \cup [ok : {TRUE}, uid : FirebaseUids,
          phone : { <<"+","1","4","1","5","5","5","5","0","1","2","3">> }]

\* users sign in on either channel, the federated one with any asserted phone
NextSignInAny ==
    \/ \E raw \in OtpPhones :
          Len(otp_codes) < MaxVerifyRows /\ SendOtp(raw, "111111", TRUE)
    \/ \E raw \in OtpPhones : VerifyOtp(raw, "111111")
    \/ \E a \in AnyAssertions : FirebaseSignIn(a)

SpecSignInAny == InitOtp /\ [][NextSignInAny]_vars

\* the phone of someone who has no account yet, as typed for a code and as the
\* identity provider spells it
NewPhone == UserPhones[MaxUsers + 1]
ProviderPhone(phone) == <<"+", "9", "1">> \o phone

\* the users have signed up with codes that were verified, and a code is outstanding
\* for the phone without an account
InitRaceSignIn ==
    /\ workers = <<>>
    /\ unlocks = EmptyBag
    /\ reviews = EmptyBag
    /\ favorites = EmptyBag
    /\ users = [i \in 1..MaxUsers |-> NewUser(UserPhones[i], NONE)]
    /\ now = 0
    /\ otp_codes = [i \in 1..MaxUsers + 1 |->
                       IF i <= MaxUsers
                       THEN [OtpRow(UserPhones[i], "111111") EXCEPT !.verified = TRUE]
                       ELSE OtpRow(NewPhone, "111111")]
    /\ reqs = <<>>
    /\ resp = NoResp
    /\ issued = {}

\* one account of the identity provider asserting the new phone or the phone of user 1
\* or 2, a second account asserting the new phone
RaceAssertions ==
    [ok : {TRUE}, uid : {"uidA"},
     phone : {ProviderPhone(NewPhone), ProviderPhone(UserPhones[1]), ProviderPhone(UserPhones[2])}]
    \cup {[ok |-> TRUE, uid |-> "uidB", phone |-> ProviderPhone(NewPhone)],
          [ok |-> FALSE, uid |-> "uidA", phone |-> <<>>]}

\* OTP verifications of the new phone and federated sign-ins, their statements
\* interleaved
NextRaceSignIn ==
    \/ \E code \in Codes : StartVerify(NewPhone, code)
    \/ \E a \in RaceAssertions : StartFirebase(a)
    \/ \E i \in 1..MaxRequests : VerifySelect(i)
    \/ \E i \in 1..MaxRequests : VerifyWrite(i)
    \/ \E i \in 1..MaxRequests : VerifyUserSelect(i)
    \/ \E i \in 1..MaxRequests : VerifyUserInsert(i)
    \/ \E i \in 1..MaxRequests : FirebaseUidSelect(i)
    \/ \E i \in 1..MaxRequests : FirebasePhoneSelect(i)
    \/ \E i \in 1..MaxRequests : FirebaseLink(i)
    \/ \E i \in 1..MaxRequests : FirebaseInsert(i)

SpecRaceSignIn == InitRaceSignIn /\ [][NextRaceSignIn]_vars

\* phones as callers type them: "+91 98765 43210", "098765 43210", "9876543210",
\* "919876543210", "910987654321", "09198765432", "9198765432", "5876543210", "98765",
\* "phone" and the empty string
NormalizeInputs ==
    { <<"+","9","1"," ","9","8","7","6","5"," ","4","3","2","1","0">>,
      <<"0","9","8","7","6","5"," ","4","3","2","1","0">>,
      <<"9","8","7","6","5","4","3","2","1","0">>,
      <<"9","1","9","8","7","6","5","4","3","2","1","0">>,
      <<"9","1","0","9","8","7","6","5","4","3","2","1">>,
      <<"0","9","1","9","8","7","6","5","4","3","2">>,
      <<"9","1","9","8","7","6","5","4","3","2">>,
      <<"5","8","7","6","5","4","3","2","1","0">>,
      <<"9","8","7","6","5">>,
      <<"p","h","o","n","e">>,
      <<>> }

\* codes are asked for phones typed in any of these ways, while time passes
NextNormalize ==
    \/ \E raw \in NormalizeInputs, sent \in BOOLEAN : SendOtp(raw, "111111", sent)
    \/ Tick(OTP_EXPIRY_MINUTES)

SpecNormalize == InitOtp /\ [][NextNormalize]_vars

\* the tokens of a sign-in at minute 0
LoginTokens(id) == TokensOf(create_tokens(id, users[id]))

\* a pair of tokens signed for a user whose row is not there: the store was set
\* up anew while SECRET_KEY stayed the same
OrphanTokens ==
    TokensOf(create_tokens(Len(users) + 1, NewUser(UserPhones[Len(users) + 1], NONE)))

\* the users exist, and the first of them has signed in at minute 0
InitAuth ==
    /\ workers = <<>>
    /\ unlocks = EmptyBag
    /\ reviews = EmptyBag
    /\ favorites = EmptyBag
    /\ users = [i \in 1..MaxUsers |-> NewUser(UserPhones[i], NONE)]
    /\ otp_codes = <<>>
    /\ now = 0
    /\ reqs = <<>>
    /\ resp = NoResp
    /\ issued = LoginTokens(1) \cup OrphanTokens

\* the instants at which tokens are presented: the minute an access token of minute
\* 0 expires and the next, the minute a refresh token of minute 0 expires and the next
AuthInstants ==
    { ACCESS_TOKEN_EXPIRE_MINUTES, ACCESS_TOKEN_EXPIRE_MINUTES + 1,
      REFRESH_TOKEN_EXPIRE_DAYS * MinutesPerDay,
      REFRESH_TOKEN_EXPIRE_DAYS * MinutesPerDay + 1 }

\* what a client can present: a token that was handed out, as it is or altered
Presented == issued \cup { Tampered(t) : t \in issued }

NextAuth ==
    \/ \E t \in Presented : Refresh(t)
    \/ \E t \in Presented : GetMe(t)
    \/ \E t \in Presented : RegisterAsWorker(t)
    \/ \E t \in AuthInstants : TickTo(t)

SpecAuth == InitAuth /\ [][NextAuth]_vars

\* tokens made up for user 1 by someone who does not hold SECRET_KEY
ForgedTokens ==
    { Tampered(t) : t \in TokensOf(create_tokens(1, NewUser(CHOOSE ph \in SignInPhones : TRUE, NONE))) }

\* the phone of the one user as typed for a code, and a number that is no mobile number
IssuePhones == VerifyPhones \cup { <<"9","8","7","6","5">> }

\* what the identity provider asserts about the same phone, and a token it rejects
IssueAssertions ==
    {[ok |-> TRUE, uid |-> "uidA", phone |-> <<"+","9","1","9","8","7","6","5","4","3","2","1","0">>],
     [ok |-> FALSE, uid |-> "uidA", phone |-> <<>>]}

\* every request that can end in tokens, and those that must not: sends that fail
\* or succeed, verifications right and wrong, federated sign-ins, refreshes with
\* tokens handed out, altered or made up
NextIssue ==
    \/ \E raw \in IssuePhones, sent \in BOOLEAN :
          Len(otp_codes) < MaxIssueRows /\ SendOtp(raw, "111111", sent)
    \/ \E raw \in IssuePhones, code \in Codes : VerifyOtp(raw, code)
    \/ \E a \in IssueAssertions : FirebaseSignIn(a)
    \/ \E t \in Presented \cup ForgedTokens : Refresh(t)
    \/ Tick(OTP_EXPIRY_MINUTES)

SpecIssue == InitOtp /\ [][NextIssue]_vars

-----------------------------------------------------------------------------
(* Properties *)

\* the worker a phone belongs to (Worker.phone is unique), 0 for none
WorkerOfPhone(ph) ==
    IF \E i \in 1..Len(workers) : workers[i].phone = ph
    THEN CHOOSE i \in 1..Len(workers) : workers[i].phone = ph
    ELSE 0

\* the phone fields a response carries
PhoneFields(r) == (IF r.phone = NONE THEN {} ELSE {r.phone}) \cup {e.phone : e \in r.items}

\* the ratings a valid request may carry
ValidRatingInputs == {r \in RatingInputs : r >= MIN_RATING /\ r <= MAX_RATING}

\* C1: unlock requests served one after another, for a worker that exists: the call
\* that finds no Unlock row of the pair answers "success" with the worker's phone and
\* adds the pair's one row; every call after it answers "already_unlocked" with the
\* same phone and leaves the table as it is; the pair has exactly one row after each
\* call, and no step changes a stored worker phone.
UnlockIdempotent ==
    [][ /\ \A i \in 1..Len(workers) : i <= Len(workers') /\ workers'[i].phone = workers[i].phone
        /\ \A a \in AuthSubjects, u \in UserIds, w \in WorkerIds, p \in PaymentIds :
             (/\ resp'.op = "unlock" /\ resp'.user_id = u
              /\ UnlockContact(a, u, w, p) /\ w \in 1..Len(workers)) =>
                /\ CountOver(unlocks', {r \in BagToSet(unlocks') :
                                          r.user_id = u /\ r.worker_id = w}) = 1
                /\ resp'.phone = workers[w].phone
                /\ IF NumPair(unlocks, u, w) = 0
                   THEN /\ resp'.status = "success"
                        /\ BagCardinality(unlocks') = BagCardinality(unlocks) + 1
                   ELSE /\ resp'.status = "already_unlocked"
                        /\ unlocks' = unlocks
      ]_vars

\* C1 witness: a repeated unlock was answered "already_unlocked" with the phone of a
\* worker for which the user holds exactly one row
UnlockIdempotentWitness ==
    /\ resp.op = "unlock"
    /\ resp.status = "already_unlocked"
    /\ WorkerOfPhone(resp.phone) # 0
    /\ NumPair(unlocks, resp.user_id, WorkerOfPhone(resp.phone)) = 1

MaskedEverywhere ==
    resp.op \in {"create_worker", "search_workers", "get_worker_profile", "get_my_favorites"}
        => \A ph \in PhoneFields(resp) : ph = LOCKED

\* C4 witness: the favorites listing of a user shows a worker this user has unlocked
MaskedEverywhereWitness ==
    /\ resp.op = "get_my_favorites"
    /\ \E e \in resp.items :
          /\ e.phone = LOCKED
          /\ NumPair(unlocks, resp.user_id, e.worker_id) > 0

\* C5 (as claimed): an Unlock row with user id u is created only by a request whose
\* validated access token has subject u.
UnlockUserFromToken ==
    [][ \A a \in AuthSubjects, u \in UserIds, w \in WorkerIds, p \in PaymentIds :
           (/\ resp'.op = "unlock" /\ resp'.user_id = u
            /\ UnlockContact(a, u, w, p) /\ BagCardinality(unlocks') > BagCardinality(unlocks))
              => (a = u /\ \E r \in BagToSet(unlocks') : r.user_id = a)
      ]_vars

\* C6: a submission with a rating in 1..5 fails with NotUnlocked and adds no Review row
\* when the pair has no Unlock row, and succeeds, adding its row, when the pair has an
\* Unlock row and no Review yet.
ReviewGated ==
    [][ \A u \in UserIds, w \in WorkerIds, rt \in ValidRatingInputs :
           (resp'.op = "review" /\ resp'.user_id = u /\ CreateReview(0, u, w, rt)) =>
              /\ NumPair(unlocks, u, w) = 0 =>
                    (resp'.status = "NotUnlocked" /\ reviews' = reviews)
              /\ (NumPair(unlocks, u, w) > 0 /\ NumPair(reviews, u, w) = 0) =>
                    /\ resp'.status = "success"
                    /\ reviews' = reviews (+) SetToBag({[user_id |-> u, worker_id |-> w,
                                                         rating |-> rt]})
      ]_vars

\* C6 witness: a review was accepted for a pair that holds an Unlock row, while
\* another pair holds none
ReviewGatedWitness ==
    /\ resp.op = "review"
    /\ resp.status = "success"
    /\ \E r \in BagToSet(reviews) : r.user_id = resp.user_id /\ NumPair(unlocks, r.user_id, r.worker_id) > 0
    /\ \E u \in UserIds, w \in WorkerIds : NumPair(unlocks, u, w) = 0

\* C7: submissions served one after another leave at most one Review row per pair: a
\* submission for a pair that has a Review fails with DuplicateReview and changes
\* neither the reviews nor the workers.
OneReviewPerPair ==
    [][ /\ \A u \in UserIds, w \in WorkerIds :
              CountOver(reviews', {r \in BagToSet(reviews') :
                                     r.user_id = u /\ r.worker_id = w}) <= 1
        /\ \A u \in UserIds, w \in WorkerIds, rt \in ValidRatingInputs :
              (/\ resp'.op = "review" /\ resp'.user_id = u
               /\ CreateReview(0, u, w, rt) /\ NumPair(reviews, u, w) > 0) =>
                  /\ resp'.status = "DuplicateReview"
                  /\ reviews' = reviews
                  /\ workers' = workers
      ]_vars

\* C7 witness: a second submission for a reviewed pair was refused
OneReviewPerPairWitness ==
    /\ resp.op = "review"
    /\ resp.status = "DuplicateReview"
    /\ \E w \in WorkerIds : NumPair(reviews, resp.user_id, w) = 1

\* C9 (as claimed): every worker that has a Review row has rating_count equal to the
\* number of its Review rows and rating_avg equal to their mean rounded to one decimal.
AggregateMatchesReviews ==
    \A w \in 1..Len(workers) :
        CountRatings(reviews, w) > 0 =>
            /\ workers[w].rating_count = CountRatings(reviews, w)
            /\ workers[w].rating_avg = Round1(SumRatings(reviews, w), CountRatings(reviews, w))

\* C2 (as claimed): with the statements of unlock requests interleaved, a pair never
\* has more than one Unlock row.
OneUnlockRowUnderRace ==
    \A u \in UserIds, w \in WorkerIds : NumPair(unlocks, u, w) <= 1

\* C8 (as claimed): with the statements of review requests interleaved, a pair never
\* has more than one Review row.
OneReviewRowUnderRace ==
    \A u \in UserIds, w \in WorkerIds : NumPair(reviews, u, w) <= 1

\* the normalized phone of each phone a caller may type, and the callers' phones
\* that are valid
NormalizedPhone == [raw \in RawPhones |-> normalize_phone(raw)]
ValidRawPhones == {raw \in RawPhones : is_valid_indian_phone(NormalizedPhone[raw])}

\* the codes created for a phone within the trailing RATE_LIMIT_MINUTES minutes
InWindow(phone) ==
    {i \in 1..Len(otp_codes) :
        otp_codes[i].phone = phone /\ now - otp_codes[i].created_at <= RATE_LIMIT_MINUTES}

\* C10: a send for a valid phone fails with RateLimited if and only if at least 3 codes
\* were created for its normalized phone within the trailing 10 minutes, whatever became
\* of them; a rate-limited send creates no row, every other send creates exactly one row
\* for that phone, and is answered success unless the delivery failed.
SendRateLimit ==
    [][\A raw \in ValidRawPhones, sent \in BOOLEAN :
          (resp'.op = "send_otp" /\ SendOtp(raw, "111111", sent)) =>
              LET phone == NormalizedPhone[raw]
                  n == Cardinality(InWindow(phone))
              IN
              /\ (resp'.status = "RateLimited") <=> (n >= 3)
              /\ n >= 3 => otp_codes' = otp_codes
              /\ n < 3 =>
                    /\ Len(otp_codes') = Len(otp_codes) + 1
                    /\ SubSeq(otp_codes', 1, Len(otp_codes)) = otp_codes
                    /\ otp_codes'[Len(otp_codes')].phone = phone
                    /\ otp_codes'[Len(otp_codes')].created_at = now
                    /\ resp'.status = (IF sent THEN "success" ELSE "SendFailed")]_vars

\* a send was refused while the three codes in the window include a verified one and
\* an expired one, next to a code of another phone
SendRateLimitWitness ==
    /\ resp.op = "send_otp"
    /\ resp.status = "RateLimited"
    /\ \E phone \in {NormalizedPhone[raw] : raw \in ValidRawPhones} :
          /\ Cardinality(InWindow(phone)) = 3
          /\ \E i \in InWindow(phone) : otp_codes[i].verified
          /\ \E i \in InWindow(phone) : otp_codes[i].expires_at <= now
          /\ \E i \in 1..Len(otp_codes) : otp_codes[i].phone # phone

\* the row a verification of phone selects: the most recent of its rows that are
\* neither expired nor verified, 0 if there is none
SelectedRow(phone) ==
    LET S == {i \in 1..Len(otp_codes) :
                 /\ otp_codes[i].phone = phone
                 /\ now < otp_codes[i].expires_at
                 /\ ~otp_codes[i].verified}
    IN IF S = {} THEN 0 ELSE CHOOSE i \in S : \A j \in S : j <= i

\* C11 (as claimed): whatever codes were sent to a phone before, the verification that
\* repeats a successful one, same phone and same code, fails with CodeNotFound.
VerifySingleUse ==
    [][ \A raw \in VerifyPhones, code \in Codes :
           (/\ resp.op = "verify_otp" /\ resp.status = "success"
            /\ resp.req = [phone |-> normalize_phone(raw), code |-> code]
            /\ VerifyOtp(raw, code))
              => resp'.status = "CodeNotFound"
      ]_vars

\* C12: once 3 wrong codes were counted on a row, every verification that selects the
\* row fails with TooManyAttempts and changes nothing, the right code included, and no
\* step marks such a row verified.
VerifyLockout ==
    [][ /\ \A i \in 1..Len(otp_codes) :
              (otp_codes[i].attempts >= 3 /\ ~otp_codes[i].verified) =>
                  (~otp_codes'[i].verified /\ otp_codes'[i].attempts = otp_codes[i].attempts)
        /\ \A raw \in VerifyPhones, code \in Codes :
              (/\ resp'.op = "verify_otp"
               /\ SelectedRow(normalize_phone(raw)) # 0
               /\ otp_codes[SelectedRow(normalize_phone(raw))].attempts >= 3
               /\ VerifyOtp(raw, code))
                 => (resp'.status = "TooManyAttempts" /\ otp_codes' = otp_codes /\ users' = users)
      ]_vars

\* C12 witness: the right code was refused with TooManyAttempts on a row that counts
\* 3 wrong codes and is still unexpired and unverified
VerifyLockoutWitness ==
    /\ resp.op = "verify_otp"
    /\ resp.status = "TooManyAttempts"
    /\ SelectedRow(resp.req.phone) # 0
    /\ otp_codes[SelectedRow(resp.req.phone)].attempts = 3
    /\ otp_codes[SelectedRow(resp.req.phone)].code = resp.req.code

\* what a token carries when it is presented: a signature that verifies, an expiry
\* that has not been reached
WellSigned(token) == token.key = SECRET_KEY
Unexpired(token) == now < token.exp

\* the first of the three checks a token fails on a path that expects kind, "ok"
\* when it passes all three
FailedCheck(token, kind) ==
    IF ~WellSigned(token) THEN "TokenInvalid"
    ELSE IF ~Unexpired(token) THEN "TokenExpired"
    ELSE IF token.type # kind THEN "WrongTokenKind"
    ELSE "ok"

\* C13: a well-signed, unexpired access token presented to refresh is rejected with
\* WrongTokenKind and no token is handed out, and a well-signed, unexpired refresh
\* token presented to a protected call does not authenticate it.
KindTagEnforced ==
    [][ \A t \in Presented :
          /\ (/\ FailedCheck(t, "refresh") = "WrongTokenKind"
              /\ resp'.op = "refresh" /\ resp'.req = t
              /\ Refresh(t))
                => (resp'.status = "WrongTokenKind" /\ issued' = issued)
          /\ (/\ FailedCheck(t, "access") = "WrongTokenKind"
              /\ resp'.op = "get_me" /\ resp'.req = t
              /\ GetMe(t))
                => resp'.status # "ok"
      ]_vars

\* C14: a token that fails validation is answered with the name of the check it
\* failed -- TokenInvalid, TokenExpired or WrongTokenKind -- on the refresh path and on
\* a protected call alike, and the claims come back only when all three checks pass.
ValidateOutcomes ==
    [][ \A t \in Presented :
          /\ (resp'.op = "refresh" /\ resp'.req = t /\ Refresh(t))
                => IF FailedCheck(t, "refresh") = "ok"
                   THEN validate_refresh_token(t) = t
                   ELSE resp'.status = FailedCheck(t, "refresh")
          /\ (resp'.op = "get_me" /\ resp'.req = t /\ GetMe(t))
                => IF FailedCheck(t, "access") = "ok"
                   THEN validate_access_token(t) = t
                   ELSE resp'.status = FailedCheck(t, "access")
      ]_vars

\* C15: the tokens handed out expire 15 minutes (access) and 7 days (refresh) after
\* the minute they are issued, and a token is accepted only before its expiry: at the
\* minute of its expiry and later, refresh and protected calls reject it.
AcceptedBeforeExpiry ==
    [][ /\ (resp'.op = "refresh" /\ resp'.status = "success" /\ issued' # issued)
              => /\ resp'.tokens.access_token.exp = now + 15
                 /\ resp'.tokens.refresh_token.exp = now + 7 * 24 * 60
        /\ \A t \in Presented :
              /\ (resp'.op = "refresh" /\ resp'.req = t /\ Refresh(t))
                    => (resp'.status = "success" => now < t.exp)
              /\ (resp'.op = "get_me" /\ resp'.req = t /\ GetMe(t))
                    => (resp'.status = "ok" => now < t.exp)
      ]_vars

\* the store: every table
store == <<workers, unlocks, reviews, favorites, users, otp_codes>>

\* C16: refresh with a refresh token that passes validation writes nothing to the
\* store; it fails with UserNotFound when the subject has no user row, and otherwise
\* hands out a new pair whose access claims and user summary are those of the user row
\* as it is now.
RefreshFromRecord ==
    [][ \A t \in Presented :
          (/\ FailedCheck(t, "refresh") = "ok"
           /\ resp'.op = "refresh" /\ resp'.req = t
           /\ Refresh(t))
             => /\ store' = store
                /\ IF t.sub \notin 1..Len(users)
                   THEN resp'.status = "UserNotFound" /\ issued' = issued
                   ELSE /\ resp'.status = "success"
                        /\ resp'.tokens.access_token =
                              [sub |-> t.sub, phone |-> users[t.sub].phone,
                               role |-> users[t.sub].role,
                               is_worker |-> users[t.sub].is_worker,
                               exp |-> now + 15, type |-> "access", key |-> SECRET_KEY]
                        /\ resp'.tokens.refresh_token =
                              [sub |-> t.sub, phone |-> users[t.sub].phone,
                               exp |-> now + 7 * 24 * 60, type |-> "refresh",
                               key |-> SECRET_KEY]
                        /\ resp'.tokens.user.id = t.sub
                        /\ resp'.tokens.user.role = users[t.sub].role
                        /\ resp'.tokens.user.is_worker = users[t.sub].is_worker
                        /\ resp'.tokens.user.phone = users[t.sub].phone
      ]_vars

GetOrCreateOnce ==
    [][ \A raw \in VerifyPhones, code \in Codes :
          (/\ resp'.op = "verify_otp" /\ resp'.status = "success"
           /\ VerifyOtp(raw, code))
             => /\ IF \E i \in 1..Len(users) : users[i].phone = normalize_phone(raw)
                   THEN /\ users' = users
                        /\ resp'.is_new = FALSE
                        /\ users[resp'.user_id].phone = normalize_phone(raw)
                   ELSE /\ Len(users') = Len(users) + 1
                        /\ SubSeq(users', 1, Len(users)) = users
                        /\ users'[Len(users')].phone = normalize_phone(raw)
                        /\ users'[Len(users')].role = "employer"
                        /\ users'[Len(users')].is_worker = FALSE
                        /\ resp'.is_new = TRUE
                        /\ resp'.user_id = Len(users')
                /\ (/\ resp.op = "verify_otp" /\ resp.status = "success"
                    /\ resp.req.phone = normalize_phone(raw))
                      => resp'.user_id = resp.user_id
      ]_vars

\* C18 witness: a verification succeeded for a phone whose user existed already
GetOrCreateOnceWitness ==
    /\ resp.op = "verify_otp"
    /\ resp.status = "success"
    /\ resp.is_new = FALSE
    /\ Len(users) = 1
    /\ users[resp.user_id].phone = resp.req.phone

\* the rows of the users table that hold phone
UsersOfPhone(phone) == {i \in 1..Len(users) : users[i].phone = phone}

\* C20: a federated sign-in looks the user up by the external id first, then by the
\* normalized phone, and creates a row only when neither matches; when only the phone
\* matches it links the external id to that row and returns it as not new.  No sign-in
\* removes a row or changes its phone, and a sign-in on either channel that is not
\* resolved by the external id returns the one row of its phone: the user of an OTP
\* verification and of a federated sign-in with the same phone is the same row.
FederatedLookupOrder ==
    [][ /\ \A a \in FirebaseAssertions :
              (/\ resp'.op = "firebase_signin" /\ resp'.status = "success" /\ resp'.req = a
               /\ FirebaseSignIn(a))
                 => IF \E i \in 1..Len(users) : users[i].firebase_uid = a.uid
                    THEN /\ users' = users
                         /\ users[resp'.user_id].firebase_uid = a.uid
                         /\ resp'.is_new = FALSE
                    ELSE IF UsersOfPhone(normalize_phone(a.phone)) # {}
                    THEN /\ resp'.user_id \in UsersOfPhone(normalize_phone(a.phone))
                         /\ users' = [users EXCEPT ![resp'.user_id].firebase_uid = a.uid]
                         /\ resp'.is_new = FALSE
                         /\ UsersOfPhone(normalize_phone(a.phone))' = {resp'.user_id}
                    ELSE /\ users' = Append(users, NewUser(normalize_phone(a.phone), a.uid))
                         /\ resp'.user_id = Len(users')
                         /\ resp'.is_new = TRUE
                         /\ UsersOfPhone(normalize_phone(a.phone))' = {resp'.user_id}
        /\ (resp'.op = "verify_otp" /\ resp'.status = "success" /\ resp' # resp)
              => {i \in 1..Len(users') : users'[i].phone = resp'.req.phone} = {resp'.user_id}
        /\ Len(users') >= Len(users)
        /\ \A i \in 1..Len(users) : users'[i].phone = users[i].phone
      ]_vars

\* C20 witness: a user made by an OTP verification has signed in on the federated
\* channel with the same phone: the one row of the phone now carries the external id
FederatedLookupOrderWitness ==
    /\ resp.op = "firebase_signin"
    /\ resp.status = "success"
    /\ resp.is_new = FALSE
    /\ \E r \in 1..Len(otp_codes) :
          otp_codes[r].verified /\ otp_codes[r].phone = users[resp.user_id].phone
    /\ users[resp.user_id].phone = normalize_phone(resp.req.phone)
    /\ users[resp.user_id].firebase_uid = resp.req.uid
    /\ UsersOfPhone(users[resp.user_id].phone) = {resp.user_id}

\* C19: whatever the interleaving of OTP verifications and federated sign-ins, no two
\* rows of the users table hold the same phone, and no two the same external id.
UsersUnique ==
    \A i, j \in 1..Len(users) :
        i # j => /\ users[i].phone # users[j].phone
                 /\ users[i].firebase_uid # NONE
                        => users[i].firebase_uid # users[j].firebase_uid

\* C19 witness: two sign-ins with the same new phone ran interleaved: both found no
\* user, one of them inserted the row and the insert of the other was refused
UsersUniqueWitness ==
    \E i, j \in 1..Len(reqs) :
        /\ reqs[i].pc = "done" /\ reqs[i].answer.status = "success" /\ reqs[i].answer.is_new
        /\ reqs[j].pc = "done" /\ reqs[j].answer.status = "IntegrityError"
        /\ users[reqs[i].answer.user_id].phone = NewPhone

\* the canonical mobile number of the claim's three spellings
Canonical == <<"9","8","7","6","5","4","3","2","1","0">>

\* the positions of phone that hold a digit
DigitPositions(phone) == {i \in 1..Len(phone) : phone[i] \in Digits}

\* C21: the normal form of a phone keeps digits only: it is the digits of the input
\* less a leading "91" when there are 12 of them, or less a leading "0" when there
\* are 11, and all the digits otherwise; "+91 98765 43210", "098765 43210" and
\* "9876543210" have the normal form "9876543210"; normalizing twice is normalizing
\* once; a normal form is valid iff it has 10 digits the first of which is 6..9; and a
\* send for a phone whose normal form is not valid is refused and writes no row.
NormalizeCanonical ==
    [][ /\ \A raw \in NormalizeInputs :
              LET d == FilterDigits(raw)
                  n == normalize_phone(raw)
              IN
              /\ Len(d) = Cardinality(DigitPositions(raw))
              /\ \A i \in 1..Len(n) : n[i] \in Digits
              /\ Len(d) = 12 /\ SubSeq(d, 1, 2) = <<"9", "1">> => <<"9", "1">> \o n = d
              /\ Len(d) = 11 /\ d[1] = "0" => <<"0">> \o n = d
              /\ ~(Len(d) = 12 /\ SubSeq(d, 1, 2) = <<"9", "1">>) /\ ~(Len(d) = 11 /\ d[1] = "0")
                    => n = d
              /\ normalize_phone(n) = n
              /\ is_valid_indian_phone(n) <=> (Len(n) = 10 /\ n[1] \in {"6", "7", "8", "9"})
              /\ \A sent \in BOOLEAN :
                    (resp'.op = "send_otp" /\ SendOtp(raw, "111111", sent)
                     /\ ~(Len(n) = 10 /\ n[1] \in {"6", "7", "8", "9"}))
                       => (resp'.status = "InvalidPhone" /\ otp_codes' = otp_codes)
        /\ normalize_phone(<<"+","9","1"," ","9","8","7","6","5"," ","4","3","2","1","0">>) = Canonical
        /\ normalize_phone(<<"0","9","8","7","6","5"," ","4","3","2","1","0">>) = Canonical
        /\ normalize_phone(Canonical) = Canonical
      ]_vars

\* C21 witness: a send was refused as InvalidPhone, and the codes sent before are all
\* stored under the normal form "9876543210"
NormalizeCanonicalWitness ==
    /\ resp.op = "send_otp"
    /\ resp.status = "InvalidPhone"
    /\ Len(otp_codes) >= 2
    /\ \A i \in 1..Len(otp_codes) : otp_codes[i].phone = Canonical

\* C22: an unlock for a pair without an Unlock row and a worker id that is not
\* registered fails with WorkerNotFound, and its answer carries no phone.
UnlockWorkerNotFound ==
    [][ \A a \in AuthSubjects, u \in UserIds, w \in WorkerIds, p \in PaymentIds :
           (/\ resp'.op = "unlock" /\ resp'.user_id = u
            /\ ~ExistingUnlock(u, w) /\ ~WorkerExists(w)
            /\ UnlockContact(a, u, w, p))
              => (resp'.status = "WorkerNotFound" /\ resp'.phone = NONE)
      ]_vars

\* C22 witness: an unlock was answered WorkerNotFound while no worker is registered
UnlockWorkerNotFoundWitness ==
    /\ resp.op = "unlock"
    /\ resp.status = "WorkerNotFound"
    /\ resp.phone = NONE
    /\ workers = <<>>

\* C25: an unlock request that does not answer "success" leaves the Unlock table as
\* it is, every Unlock row refers to a registered worker, and "already_unlocked" is
\* answered only for a pair whose worker is registered.
UnlockRowsOnlyOnSuccess ==
    [][ /\ (resp'.op = "unlock" /\ resp'.status # "success" /\ resp' # resp)
              => unlocks' = unlocks
        /\ \A r \in BagToSet(unlocks') : r.worker_id \in 1..Len(workers')
        /\ \A a \in AuthSubjects, u \in UserIds, w \in WorkerIds, p \in PaymentIds :
              (/\ resp'.op = "unlock" /\ resp'.user_id = u
               /\ resp'.status = "already_unlocked"
               /\ UnlockContact(a, u, w, p))
                 => WorkerExists(w)
      ]_vars

\* C23: when the delivery fails, the caller is told so, and the row written before the
\* attempt is there as after any send: it is the newest row of the phone, it counts in
\* the rate-limit window, no later step removes or rewrites a row's phone, code or
\* times, and a verification with its code that follows the failed send succeeds as
\* long as the row has not expired.
FailedSendKeepsRow ==
    [][ /\ \A raw \in ValidRawPhones :
              (/\ resp'.op = "send_otp"
               /\ ~is_rate_limited(NormalizedPhone[raw])
               /\ SendOtp(raw, "111111", FALSE))
                 => /\ resp'.status = "SendFailed"
                    /\ otp_codes' = Append(otp_codes,
                          [phone |-> NormalizedPhone[raw], code |-> "111111", created_at |-> now,
                           expires_at |-> now + 5, verified |-> FALSE, attempts |-> 0])
                    /\ Cardinality(InWindow(NormalizedPhone[raw])')
                          = Cardinality(InWindow(NormalizedPhone[raw])) + 1
        /\ \A i \in 1..Len(otp_codes) :
              /\ i <= Len(otp_codes')
              /\ otp_codes'[i].phone = otp_codes[i].phone
              /\ otp_codes'[i].code = otp_codes[i].code
              /\ otp_codes'[i].created_at = otp_codes[i].created_at
              /\ otp_codes'[i].expires_at = otp_codes[i].expires_at
        /\ \A raw \in SignInPhones :
              (/\ resp.op = "send_otp" /\ resp.status = "SendFailed"
               /\ resp'.op = "verify_otp"
               /\ otp_codes[Len(otp_codes)].phone = normalize_phone(raw)
               /\ VerifyOtp(raw, otp_codes[Len(otp_codes)].code))
                 => IF now < otp_codes[Len(otp_codes)].expires_at
                    THEN resp'.status = "success" /\ otp_codes'[Len(otp_codes)].verified
                    ELSE resp'.status # "success"
      ]_vars

\* C23 witness: a send has just failed to deliver; its row is the one a verification
\* of the phone would select, and it is the third row in the phone's window
FailedSendKeepsRowWitness ==
    /\ resp.op = "send_otp"
    /\ resp.status = "SendFailed"
    /\ SelectedRow(otp_codes[Len(otp_codes)].phone) = Len(otp_codes)
    /\ otp_codes[Len(otp_codes)].created_at = now
    /\ Cardinality(InWindow(otp_codes[Len(otp_codes)].phone)) = 3

\* the rows of the OTP table that hold phone
RowsOfPhone(phone) == {i \in 1..Len(otp_codes) : otp_codes[i].phone = phone}

\* every row of phone, if it has any, is expired and unverified
OnlyExpiredRows(phone) ==
    \A i \in RowsOfPhone(phone) : otp_codes[i].expires_at <= now /\ ~otp_codes[i].verified

\* C24: a verification for a phone that has no OTP row and one for a phone whose rows
\* have all expired unverified get the same answer, CodeNotFound with nothing else in
\* it than the request, and change nothing: the answer and the effect do not depend on
\* whether expired rows are there.
VerifyHidesExpired ==
    [][ \A raw \in VerifyPhones, code \in Codes :
          (/\ resp'.op = "verify_otp"
           /\ OnlyExpiredRows(normalize_phone(raw))
           /\ VerifyOtp(raw, code))
             => /\ resp' = [op |-> "verify_otp", user_id |-> 0, status |-> "CodeNotFound",
                            phone |-> NONE, items |-> {},
                            req |-> [phone |-> normalize_phone(raw), code |-> code]]
                /\ store' = store
                /\ issued' = issued
      ]_vars

\* C24 witness: a verification was answered CodeNotFound for a phone that has rows,
\* all of them expired and unverified, one holding the very code that was submitted
VerifyHidesExpiredWitness ==
    /\ resp.op = "verify_otp"
    /\ resp.status = "CodeNotFound"
    /\ RowsOfPhone(resp.req.phone) # {}
    /\ OnlyExpiredRows(resp.req.phone)
    /\ \E i \in RowsOfPhone(resp.req.phone) : otp_codes[i].code = resp.req.code

\* C26: no step takes an Unlock row away or changes one: the table only grows, every
\* row carries the tariff 99, and an unlock that takes the already-unlocked branch
\* leaves the table -- payment reference, amount and creation time of the pair's row
\* -- as it is, whatever payment reference it supplies.
UnlockRowsImmutable ==
    [][ /\ unlocks \sqsubseteq unlocks'
        /\ \A r \in BagToSet(unlocks') : r.amount = 99 /\ r.created_at <= now
        /\ \A u \in UserIds, w \in WorkerIds, p \in PaymentIds :
              (/\ resp'.op = "unlock" /\ resp'.user_id = u
               /\ ExistingUnlock(u, w)
               /\ UnlockContact(0, u, w, p))
                 => (resp'.status = "already_unlocked" /\ unlocks' = unlocks)
      ]_vars

\* C26 witness: an unlock was answered "already_unlocked" later than the pair's row
\* was created, and the pair still has that one row
UnlockRowsImmutableWitness ==
    /\ resp.op = "unlock"
    /\ resp.status = "already_unlocked"
    /\ \E r \in BagToSet(unlocks) :
          /\ r.user_id = resp.user_id
          /\ r.created_at < now
          /\ NumPair(unlocks, r.user_id, r.worker_id) = 1
    /\ \A r \in BagToSet(unlocks) : r.user_id = resp.user_id => r.created_at < now

\* C27: whatever the interleaving of unlock and review requests, every Review row has
\* an Unlock row of the same user and worker.
ReviewHasUnlock ==
    \A r \in BagToSet(reviews) : NumPair(unlocks, r.user_id, r.worker_id) > 0

\* C27 witness: a review of a pair was inserted while the unlock request that made the
\* pair's row had not yet finished
ReviewHasUnlockWitness ==
    \E i, j \in 1..Len(reqs) :
        /\ reqs[i].op = "unlock" /\ reqs[i].pc = "fetch"
        /\ reqs[j].op = "review" /\ reqs[j].u = reqs[i].u /\ reqs[j].w = reqs[i].w
        /\ NumPair(reviews, reqs[j].u, reqs[j].w) = 1
        /\ NumPair(unlocks, reqs[i].u, reqs[i].w) = 1

\* every request that has arrived is done
AllDone == \A i \in 1..Len(reqs) : reqs[i].pc = "done"

\* C28 (as claimed): once concurrent review submissions of different users for a worker
\* have all completed, the worker's rating_count is the number of its Review rows and
\* its rating_avg their mean rounded to one decimal.
AggregateFreshUnderRace ==
    (/\ AllDone
     /\ \A i, j \in 1..Len(reqs) : i # j => reqs[i].u # reqs[j].u)
       => \A w \in 1..Len(workers) :
             CountRatings(reviews, w) > 0 =>
                /\ workers[w].rating_count = CountRatings(reviews, w)
                /\ workers[w].rating_avg
                      = Round1(SumRatings(reviews, w), CountRatings(reviews, w))

\* row i is the newest unexpired unverified row of phone and row j an older one whose
\* code differs from row i's
NewerShadowsOlder(phone, i, j) ==
    /\ i \in ActiveRows(phone) /\ j \in ActiveRows(phone)
    /\ \A k \in ActiveRows(phone) : k <= i
    /\ j < i
    /\ otp_codes[j].code # otp_codes[i].code

\* a step in which verify_otp answered: its answer names the phone (normalized) and
\* the code it was called with
VerifyAnswered == resp'.op = "verify_otp" /\ now' = now

\* C29 (as claimed): while a newer unexpired unverified row exists, a verification
\* supplying the different code of an older unexpired row is answered IncorrectCode and
\* increments the newer row's attempts, never the older row's.
OlderCodeHitsNewestRow ==
    [][ VerifyAnswered =>
          \A i, j \in 1..Len(otp_codes) :
             (/\ NewerShadowsOlder(resp'.req.phone, i, j)
              /\ resp'.req.code = otp_codes[j].code)
                => /\ resp'.status = "IncorrectCode"
                   /\ otp_codes' = [otp_codes EXCEPT ![i].attempts = @ + 1]
      ]_vars

\* C29 (amended): a verification changes no row but the newest unexpired unverified
\* row of the phone; while that row has fewer than three failed attempts, supplying
\* the different code of an older unexpired row is answered IncorrectCode and
\* increments the newest row's attempts, never the older row's; once it has three, the
\* answer is TooManyAttempts and no row changes.
OlderCodeHitsNewestRowUnlessLocked ==
    [][ VerifyAnswered =>
          /\ \A i, j \in 1..Len(otp_codes) :
                (/\ NewerShadowsOlder(resp'.req.phone, i, j)
                 /\ resp'.req.code = otp_codes[j].code)
                   => IF otp_codes[i].attempts < 3
                      THEN /\ resp'.status = "IncorrectCode"
                           /\ otp_codes' = [otp_codes EXCEPT ![i].attempts = @ + 1]
                      ELSE /\ resp'.status = "TooManyAttempts"
                           /\ otp_codes' = otp_codes
          /\ \A k \in 1..Len(otp_codes) :
                otp_codes'[k] # otp_codes[k]
                   => /\ k \in ActiveRows(resp'.req.phone)
                      /\ \A m \in ActiveRows(resp'.req.phone) : m <= k
      ]_vars

\* C29 witness: the code of the older of two unexpired unverified rows was supplied
\* and turned down as incorrect, which the newer row counted and the older did not
OlderCodeHitsNewestRowWitness ==
    /\ resp.op = "verify_otp"
    /\ resp.status = "IncorrectCode"
    /\ \E i, j \in 1..Len(otp_codes) :
         /\ NewerShadowsOlder(resp.req.phone, i, j)
         /\ otp_codes[j].code = resp.req.code
         /\ otp_codes[i].attempts = 1
         /\ otp_codes[j].attempts = 0

\* C30 (as claimed): once a later send has made a newer row for the phone, the code of
\* an earlier row is never accepted again, whatever became of the newer row: a
\* verification that succeeds marks a row that has no newer row of the same phone.
SupersededCodeNeverAccepted ==
    [][ (VerifyAnswered /\ resp'.status = "success") =>
          \A k \in 1..Len(otp_codes) :
             (otp_codes'[k].verified /\ ~otp_codes[k].verified)
                => \A m \in RowsOfPhone(otp_codes[k].phone) : m <= k
      ]_vars

\* request i is a verification that was answered with tokens
VerifySucceeded(i) ==
    /\ reqs[i].op = "verify_otp"
    /\ reqs[i].pc = "done"
    /\ reqs[i].answer.status = "success"

\* C31 (as claimed): with the statements of verifications of one phone and code
\* interleaved, an OTPCode row satisfies at most one successful verification.
OneSuccessPerRowUnderRace ==
    \A i, j \in 1..Len(reqs) :
        (VerifySucceeded(i) /\ VerifySucceeded(j) /\ reqs[i].w = reqs[j].w) => i = j

\* the verifications that compared a wrong code against row k and were answered
\* IncorrectCode
WrongComparisons(k) ==
    {i \in 1..Len(reqs) :
        /\ reqs[i].op = "verify_otp"
        /\ reqs[i].pc = "done"
        /\ reqs[i].answer.status = "IncorrectCode"
        /\ reqs[i].w = k}

\* C32 (as claimed): every row's attempts counter lies between 0 and 3, and it counts
\* every wrong code that was compared against the row, also when verifications run
\* concurrently: at most 3 wrong codes are compared against a row.
AttemptsCountEveryWrongCode ==
    \A k \in 1..Len(otp_codes) :
        /\ otp_codes[k].attempts \in 0..3
        /\ Cardinality(WrongComparisons(k)) <= otp_codes[k].attempts
        /\ Cardinality(WrongComparisons(k)) <= 3

\* C33: a verification that fails changes only what its answer names.  CodeNotFound
\* and TooManyAttempts leave the store as it is; IncorrectCode adds exactly 1 to the
\* attempts of the selected row (the newest unexpired unverified row of the phone),
\* changes no other row and reports 3 minus the new counter as the attempts remaining
\* (2, 1, then 0); no failed verification sets a verified flag, creates a User or
\* issues tokens.
FailedVerifyFrame ==
    [][ (VerifyAnswered /\ resp'.status # "success") =>
          /\ resp'.status \in {"CodeNotFound", "TooManyAttempts", "IncorrectCode"}
          /\ users' = users
          /\ issued' = issued
          /\ "tokens" \notin DOMAIN resp'
          /\ <<workers, unlocks, reviews, favorites>>' = <<workers, unlocks, reviews, favorites>>
          /\ Len(otp_codes') = Len(otp_codes)
          /\ \A k \in 1..Len(otp_codes) : otp_codes'[k].verified = otp_codes[k].verified
          /\ resp'.status \in {"CodeNotFound", "TooManyAttempts"} => otp_codes' = otp_codes
          /\ resp'.status = "IncorrectCode" =>
                \E k \in ActiveRows(resp'.req.phone) :
                    /\ \A m \in ActiveRows(resp'.req.phone) : m <= k
                    /\ otp_codes' = [otp_codes EXCEPT ![k].attempts = @ + 1]
                    /\ resp'.remaining = 3 - otp_codes'[k].attempts
                    /\ resp'.remaining \in 0..2
      ]_vars

\* C33 witness: a third wrong code was turned down with no attempts remaining, and no
\* user exists and no token is out
FailedVerifyFrameWitness ==
    /\ resp.op = "verify_otp"
    /\ resp.status = "IncorrectCode"
    /\ resp.remaining = 0
    /\ \E k \in ActiveRows(resp.req.phone) : otp_codes[k].attempts = 3
    /\ users = <<>>
    /\ issued = {}

\* the rows of phone that have expired unverified and hold `code`, while no unexpired
\* unverified row of the phone holds it
ExpiredHolders(phone, code) ==
    {k \in RowsOfPhone(phone) :
        /\ otp_codes[k].code = code
        /\ otp_codes[k].expires_at <= now
        /\ ~otp_codes[k].verified
        /\ \A m \in RowsOfPhone(phone) :
              (otp_codes[m].expires_at > now /\ ~otp_codes[m].verified)
                 => otp_codes[m].code # code}

RateLimitUnderRace ==
    \A i \in 1..Len(otp_codes) :
        Cardinality({j \in RowsOfPhone(otp_codes[i].phone) :
                        /\ otp_codes[j].created_at >= otp_codes[i].created_at
                        /\ otp_codes[j].created_at <= otp_codes[i].created_at + 10}) <= 3

\* the raw phones whose normal form is not ten digits starting with 6, 7, 8 or 9
InvalidRawPhones ==
    {raw \in RawPhones :
        ~(Len(NormalizedPhone[raw]) = 10 /\ NormalizedPhone[raw][1] \in {"6", "7", "8", "9"})}

\* C36: a send for a phone that fails validation is answered InvalidPhone whatever the
\* rate-limit state and whatever the delivery would have done; it creates no row and
\* changes nothing in the store, so the rows counted against the quota of any phone
\* are the same after it as before.
InvalidSendConsumesNothing ==
    [][ \A raw \in InvalidRawPhones, sent \in BOOLEAN :
          (resp'.op = "send_otp" /\ SendOtp(raw, "111111", sent)) =>
             /\ resp' = [op |-> "send_otp", user_id |-> 0, status |-> "InvalidPhone",
                         phone |-> NONE, items |-> {}]
             /\ store' = store
             /\ \A other \in RawPhones :
                   /\ RecentRows(NormalizedPhone[other])' = RecentRows(NormalizedPhone[other])
                   /\ InWindow(NormalizedPhone[other])' = InWindow(NormalizedPhone[other])
      ]_vars

\* C36 witness: a send was refused as InvalidPhone while a valid phone stands at its
\* limit of three codes in the window, and no row is stored under an invalid phone
InvalidSendConsumesNothingWitness ==
    /\ resp.op = "send_otp"
    /\ resp.status = "InvalidPhone"
    /\ \E raw \in ValidRawPhones : Cardinality(InWindow(NormalizedPhone[raw])) = 3
    /\ \A raw \in InvalidRawPhones : RowsOfPhone(NormalizedPhone[raw]) = {}

\* C37 (as claimed): every User row's phone is a canonical key, ten digits the first of
\* which is 6, 7, 8 or 9, whether a verified code or a federated sign-in created it.
UserPhonesCanonical ==
    \A i \in 1..Len(users) :
        /\ Len(users[i].phone) = 10
        /\ \A k \in 1..Len(users[i].phone) : users[i].phone[k] \in Digits
        /\ users[i].phone[1] \in {"6", "7", "8", "9"}

\* C38 (as claimed): no step changes or clears the firebase_uid of a user that has
\* one: the phone-match path of the federated sign-in links only an account that has
\* none.
ExternalIdNeverReplaced ==
    [][ \A i \in 1..Len(users) :
           users[i].firebase_uid # NONE => users'[i].firebase_uid = users[i].firebase_uid
      ]_vars

\* a step in which a handler answered with tokens
TokensAnswered == now' = now /\ "tokens" \in DOMAIN resp'

\* C39: tokens are handed out only by a verification that succeeds, and then for the
\* user of the verified phone, whose code was marked verified in that very step; by a
\* federated sign-in whose assertion was accepted, for the user linked to its uid; or
\* by a refresh that presented a well-signed unexpired refresh token, for the user
\* the token names.  A send, a failed verification, a rejected sign-in or a rejected
\* refresh hands out nothing, and the OTP path creates a User row only in a
\* verification that succeeds.
TokensOnlyOnSuccess ==
    [][ /\ issued' # issued => TokensAnswered
        /\ (now' = now /\ resp'.status # "success") =>
              /\ "tokens" \notin DOMAIN resp'
              /\ issued' = issued
              /\ users' = users
        /\ resp'.op = "send_otp" => ("tokens" \notin DOMAIN resp' /\ issued' = issued /\ users' = users)
        /\ TokensAnswered =>
              /\ resp'.status = "success"
              /\ resp'.op \in {"verify_otp", "firebase_signin", "refresh"}
              /\ issued' = issued \cup {resp'.tokens.access_token, resp'.tokens.refresh_token}
              /\ resp'.user_id \in 1..Len(users')
              /\ \A t \in {resp'.tokens.access_token, resp'.tokens.refresh_token} :
                    /\ t.sub = resp'.user_id
                    /\ t.phone = users'[resp'.user_id].phone
                    /\ t.key = SECRET_KEY
              /\ resp'.op = "verify_otp" =>
                    /\ users'[resp'.user_id].phone = resp'.req.phone
                    /\ \E k \in 1..Len(otp_codes) :
                          /\ otp_codes[k].phone = resp'.req.phone
                          /\ otp_codes[k].code = resp'.req.code
                          /\ ~otp_codes[k].verified /\ otp_codes'[k].verified
              /\ resp'.op = "firebase_signin" =>
                    /\ resp'.req.ok
                    /\ users'[resp'.user_id].firebase_uid = resp'.req.uid
              /\ resp'.op = "refresh" =>
                    /\ resp'.req.key = SECRET_KEY
                    /\ resp'.req.type = "refresh"
                    /\ resp'.req.exp >= now
                    /\ resp'.req.sub = resp'.user_id
                    /\ users' = users
        /\ Len(users') # Len(users) =>
              /\ Len(users') = Len(users) + 1
              /\ TokensAnswered
              /\ resp'.op \in {"verify_otp", "firebase_signin"}
              /\ resp'.user_id = Len(users')
      ]_vars

\* C39 witness: a refresh was answered with tokens newer than those of the sign-in,
\* for the one user there is, who signed in with a verified code
TokensOnlyOnSuccessWitness ==
    /\ resp.op = "refresh"
    /\ resp.status = "success"
    /\ Len(users) = 1
    /\ resp.req \in issued
    /\ resp.req.exp < resp.tokens.refresh_token.exp
    /\ \E k \in 1..Len(otp_codes) : otp_codes[k].verified
    /\ users[1].firebase_uid = NONE

====
